---------------------------- MODULE Spec2Model ----------------------------
(***************************************************************************)
(* A model of prompt2scrape's core: the plan validator and the plan        *)
(* generator of services/planner.py and the extraction engine of           *)
(* services/extractor.py.                                                  *)
(*                                                                         *)
(* Strings the code inspects character by character (selectors, names) are *)
(* sequences of chunks; a chunk stands for a fixed piece of text whose      *)
(* length, lower-case form and whitespace class are tabulated below.  The  *)
(* chunk alphabet is chosen so that a forbidden pattern can occur in a      *)
(* concatenation only as a whole chunk (no other chunk holds ':' or '(').  *)
(* Messages the code builds with f-strings are TLA+ strings.               *)
(***************************************************************************)
EXTENDS Integers, Sequences, FiniteSets, TLC

VARIABLES
    vplan,      \* validator run: the candidate handed to _validate_plan
    vreport,    \* validator run: its (ok, errors) result, or NoReport
    pc,         \* generator run: position in generate_extraction_plan
    messages,   \* generator run: _build_messages(...) of this invocation
    requests,   \* generator run: the input_msgs of every oracle request so far
    received,   \* generator run: the candidates json.loads returned so far
    errs,       \* generator run: errors of the latest validation
    outcome,    \* generator run: what the invocation returned or raised
    xdoc,       \* extractor run: the parsed document
    xplan,      \* extractor run: the plan handed to extract_rows_from_plan
    xresult,    \* extractor run: ExtractResult, a raised error, or NoResult
    cprompt,    \* filter compiler run: the user prompt
    cspec,      \* filter compiler run: the compiled FilterSpec, or NoResult
    arows,      \* filter applier run: the rows handed to apply_filter_spec
    aspec,      \* filter applier run: the FilterSpec handed to it
    aout,       \* filter applier run: the rows it returned, or NoResult
    nrows,      \* normalizer run: the rows handed to postprocess_rows
    nout,       \* normalizer run: its PostprocessResult, or NoResult
    session,    \* pipeline run: the page's inputs and settings at the click
    stage,      \* pipeline run: the stage of app.py's run block now executing
    invoked,    \* pipeline run: the stages invoked so far, in order
    shown,      \* pipeline run: what the page has rendered so far
    surl,       \* scraper run: the url handed to scrape_html
    sretries,   \* scraper run: its retries argument
    spc,        \* scraper run: position in scrape_html
    sattempt,   \* scraper run: the loop variable `attempt`
    sstrategy,  \* scraper run: index of the wait strategy being tried
    slast,      \* scraper run: the local `last_err`
    slog,       \* scraper run: browser launches, navigations and sleeps so far
    sout        \* scraper run: ScrapeResult, a raised error, or NoResult

vars == <<vplan, vreport, pc, messages, requests, received, errs, outcome,
          xdoc, xplan, xresult, cprompt, cspec, arows, aspec, aout,
          nrows, nout, session, stage, invoked, shown,
          surl, sretries, spc, sattempt, sstrategy, slast, slog, sout>>

-----------------------------------------------------------------------------
(* Bounds of the model *)

MaxFields == 2      \* fields per plan in the multi-field inputs
MaxItems == 2       \* elements of the document at the top level

(* planner.py line 70: len(sel) > 200 *)
MaxSelectorLen == 200

-----------------------------------------------------------------------------
(* Text as chunk sequences *)

Min(S) == CHOOSE m \in S : \A n \in S : m <= n

\* len() of the text a chunk stands for
ChunkLen(c) ==
    CASE c = "LF" -> 1
      [] c = "CR" -> 1
      [] c = "PAD199" -> 199
      [] c = "RSQUO" -> 1      \* the apostrophe U+2019
      [] c = "INR" -> 1        \* the rupee sign U+20B9
      [] c = "EUR" -> 1        \* the euro sign U+20AC
      [] OTHER -> Len(c)

\* str.lower() of the text a chunk stands for
LowerChunk(c) ==
    CASE c = ":HAS(" -> ":has("
      [] c = ":Contains(" -> ":contains("
      [] c = "DIV" -> "div"
      [] c = "A" -> "a" [] c = "B" -> "b" [] c = "C" -> "c" [] c = "D" -> "d"
      [] c = "E" -> "e" [] c = "F" -> "f" [] c = "G" -> "g" [] c = "H" -> "h"
      [] c = "I" -> "i" [] c = "J" -> "j" [] c = "K" -> "k" [] c = "L" -> "l"
      [] c = "M" -> "m" [] c = "N" -> "n" [] c = "O" -> "o" [] c = "P" -> "p"
      [] c = "Q" -> "q" [] c = "R" -> "r" [] c = "S" -> "s" [] c = "T" -> "t"
      [] c = "U" -> "u" [] c = "V" -> "v" [] c = "W" -> "w" [] c = "X" -> "x"
      [] c = "Y" -> "y" [] c = "Z" -> "z"
      [] OTHER -> c

\* the chunks str.strip() removes at either end
IsSpaceChunk(c) == c \in {" ", "LF", "CR"}

Lower(s) == [i \in DOMAIN s |-> LowerChunk(s[i])]

RECURSIVE StrLen(_)
StrLen(s) == IF s = <<>> THEN 0 ELSE ChunkLen(Head(s)) + StrLen(Tail(s))

RECURSIVE LStrip(_)
LStrip(s) ==
    IF s # <<>> /\ IsSpaceChunk(Head(s)) THEN LStrip(Tail(s)) ELSE s

RECURSIVE RStrip(_)
RStrip(s) ==
    IF s # <<>> /\ IsSpaceChunk(s[Len(s)])
    THEN RStrip(SubSeq(s, 1, Len(s) - 1))
    ELSE s

Strip(s) == RStrip(LStrip(s))

\* Python's `f in s` for a pattern f that is a whole chunk
HasSub(s, f) == \E i \in DOMAIN s : s[i] = f

-----------------------------------------------------------------------------
(* JSON values as json.loads returns them *)

Str(s) == [kind |-> "str", s |-> s]
None == [kind |-> "none", s |-> <<>>]
Num == [kind |-> "num", s |-> <<>>]
List(xs) == [kind |-> "list", items |-> xs]
NotAList == [kind |-> "none", items |-> <<>>]
NotADict == [kind |-> "str"]

Field(n, sel, t, fb) ==
    [kind |-> "dict", name |-> n, selector |-> sel, type |-> t,
     fallback_selectors |-> fb]

Plan(ic, fs) == [kind |-> "dict", item_container |-> ic, fields |-> fs]

IsStr(v) == v.kind = "str"


-----------------------------------------------------------------------------
(* planner.py: the plan validator *)

Forbidden ==
    <<":has(", ":contains(", ":-soup-contains(", ":matches(", ":nth-match(">>

TypeNames == {<<"text">>, <<"number">>, <<"url">>, <<"date">>, <<"bool">>}

NoBad == <<>>

\* mutant: the length test off by one (len(sel) >= 200)
_contains_unsupported_len_off_by_one(sel) ==
    LET s == Lower(sel)
        hits == {k \in DOMAIN Forbidden : HasSub(s, Forbidden[k])}
    IN  IF hits # {}
        THEN <<"Selector contains unsupported/forbidden feature: "
                \o Forbidden[Min(hits)]>>
        ELSE IF HasSub(sel, "LF") \/ HasSub(sel, "CR")
        THEN <<"Selector contains newlines">>
        ELSE IF StrLen(sel) >= MaxSelectorLen
        THEN <<"Selector too long (likely brittle)">>
        ELSE NoBad

\* _contains_unsupported_selector_features: None (NoBad) or <<message>>; the
\* first test that fires returns
_contains_unsupported_selector_features(sel) ==
    LET s == Lower(sel)
        hits == {k \in DOMAIN Forbidden : HasSub(s, Forbidden[k])}
    IN  IF hits # {}
        THEN <<"Selector contains unsupported/forbidden feature: "
                \o Forbidden[Min(hits)]>>
        ELSE IF HasSub(sel, "LF") \/ HasSub(sel, "CR")
        THEN <<"Selector contains newlines">>
        ELSE IF StrLen(sel) > MaxSelectorLen
        THEN <<"Selector too long (likely brittle)">>
        ELSE NoBad

\* "fields[i]" with Python's 0-based index; i is the 1-based position
FieldAt(i) == "fields[" \o ToString(i - 1) \o "]"

\* lines 83-88 and 108-113: a selector that must be a non-blank string
SelectorErrors(v, what, ifBlank) ==
    IF ~IsStr(v) \/ Strip(v.s) = <<>>
    THEN <<ifBlank>>
    ELSE LET bad == _contains_unsupported_selector_features(v.s)
         IN  IF bad # NoBad THEN <<what \o " invalid: " \o bad[1]>> ELSE <<>>

\* lines 122-125: the loop over the fallback entries, from entry j on
RECURSIVE FallbackErrors(_, _, _)
FallbackErrors(items, i, j) ==
    IF j > Len(items) THEN <<>>
    ELSE LET bad == _contains_unsupported_selector_features(items[j].s)
             here == IF bad # NoBad
                     THEN <<FieldAt(i) \o ".fallback_selectors["
                             \o ToString(j - 1) \o "] invalid: " \o bad[1]>>
                     ELSE <<>>
         IN  here \o FallbackErrors(items, i, j + 1)

\* lines 96-125: the body of the loop over fields, for the field at position i
FieldErrors(f, i) ==
    IF f.kind # "dict"
    THEN <<FieldAt(i) \o " must be an object.">>
    ELSE LET fb == f.fallback_selectors
             eName == IF ~IsStr(f.name) \/ Strip(f.name.s) = <<>>
                      THEN <<FieldAt(i) \o ".name must be a non-empty string.">>
                      ELSE <<>>
             eSel == SelectorErrors(f.selector, FieldAt(i) \o ".selector",
                        FieldAt(i) \o ".selector must be a non-empty string.")
             eType == IF ~(IsStr(f.type) /\ f.type.s \in TypeNames)
                      THEN <<FieldAt(i)
                              \o ".type must be one of text/number/url/date/bool.">>
                      ELSE <<>>
             eFb == IF fb.kind # "list"
                       \/ \E j \in DOMAIN fb.items : ~IsStr(fb.items[j])
                    THEN <<FieldAt(i)
                            \o ".fallback_selectors must be a list of strings.">>
                    ELSE FallbackErrors(fb.items, i, 1)
         IN  eName \o eSel \o eType \o eFb

RECURSIVE FieldsErrors(_, _)
FieldsErrors(fs, i) ==
    IF i > Len(fs) THEN <<>>
    ELSE FieldErrors(fs[i], i) \o FieldsErrors(fs, i + 1)

\* mutant: validation stops at the first error it finds
_validate_plan_short_circuit(plan) ==
    IF plan.kind # "dict"
    THEN [ok |-> FALSE, errors |-> <<"Plan is not an object.">>]
    ELSE LET e1 == SelectorErrors(plan.item_container, "item_container",
                    "item_container must be a non-empty string CSS selector.")
             e2 == IF plan.fields.kind # "list" \/ Len(plan.fields.items) = 0
                   THEN <<"fields must be a non-empty list.">>
                   ELSE FieldsErrors(plan.fields.items, 1)
             all == e1 \o e2
         IN  [ok |-> Len(all) = 0,
              errors |-> IF all = <<>> THEN <<>> ELSE <<all[1]>>]

\* _validate_plan: (ok, errors)
_validate_plan(plan) ==
    IF plan.kind # "dict"
    THEN [ok |-> FALSE, errors |-> <<"Plan is not an object.">>]
    ELSE LET e1 == SelectorErrors(plan.item_container, "item_container",
                    "item_container must be a non-empty string CSS selector.")
         IN  IF plan.fields.kind # "list" \/ Len(plan.fields.items) = 0
             THEN [ok |-> FALSE,
                   errors |-> e1 \o <<"fields must be a non-empty list.">>]
             ELSE LET errors == e1 \o FieldsErrors(plan.fields.items, 1)
                  IN  [ok |-> Len(errors) = 0, errors |-> errors]

-----------------------------------------------------------------------------
(* Candidate plans handed to the validator *)

SeqsUpTo(S, lo, hi) == UNION {[1..n -> S] : n \in lo..hi}

SelTexts ==
    {<<>>, <<" ">>, <<"LF">>, <<"div">>, <<"div", " ", "a">>,
     <<"div", ":HAS(">>, <<"div", "LF", "a">>, <<"div", "CR", "a">>,
     <<"PAD199", "a">>, <<"PAD199", "a", "a">>,
     <<":has(", "LF", "a">>, <<"PAD199", "LF", "a">>,
     <<":matches(", ":contains(">>, <<"PAD199", ":Contains(", "CR">>}
    \cup {<<"div", Forbidden[k], "a", ")">> : k \in DOMAIN Forbidden}

GoodFieldA == Field(Str(<<"a">>), Str(<<"div">>), Str(<<"text">>), List(<<>>))
GoodFieldB ==
    Field(Str(<<"b">>), Str(<<"a">>), Str(<<"number">>), List(<<Str(<<"div">>)>>))
DupFieldA == Field(Str(<<"a">>), Str(<<"a">>), Str(<<"url">>), List(<<>>))
BadField ==
    Field(None, Str(<<":has(", "LF", "a">>), None, NotAList)
BadFallbackField ==
    Field(Str(<<"b">>), Str(<<" ">>), Str(<<"bool">>),
          List(<<Str(<<"div", "LF", "a">>), Str(<<"PAD199", "a", "a">>)>>))

IcInputs == {None, Num} \cup {Str(s) : s \in SelTexts}
IcSmall == {None, Str(<<"div">>), Str(<<":has(", "LF", "a">>)}

FieldNames == {None, Str(<<>>), Str(<<" ">>), Str(<<"a">>)}
FieldSelectors == {None} \cup {Str(s) : s \in SelTexts}
FieldTypes == {Str(t) : t \in TypeNames} \cup {Str(<<"TEXT">>), None}
FallbackInputs ==
    {NotAList, List(<<>>), List(<<Num>>), List(<<Str(<<>>)>>),
     List(<<Str(<<"div">>)>>), List(<<Str(<<"div", ":has(", "a", ")">>)>>),
     List(<<Str(<<"div">>), Num>>), List(<<Str(<<":has(", "LF", "a">>), Num>>),
     List(<<Str(<<":has(", "LF", "a">>), Str(<<"PAD199", "a", "a">>)>>),
     List(<<Str(<<"div">>), Str(<<"PAD199", "a">>)>>)}

FieldSmall == {GoodFieldA, GoodFieldB, DupFieldA, BadField, BadFallbackField,
               NotADict}

\* every value json.loads can hand to _validate_plan, within the sets above:
\* one field in every shape; every item_container over a few fields lists;
\* several fields from a small set; and values that are no object
PlanInputs ==
    {Plan(ic, List(<<Field(n, sel, t, fb)>>)) :
        ic \in IcSmall, n \in FieldNames, sel \in FieldSelectors,
        t \in FieldTypes, fb \in FallbackInputs}
    \cup {Plan(ic, fs) : ic \in IcInputs,
            fs \in {NotAList, List(<<>>), List(<<GoodFieldA>>), List(<<NotADict>>)}}
    \cup {Plan(ic, List(fs)) : ic \in IcSmall,
            fs \in SeqsUpTo(FieldSmall, 2, MaxFields)}
    \cup {[kind |-> "list"], [kind |-> "str"]}

-----------------------------------------------------------------------------
(* Idle values of the runs a specification does not drive *)

NoReport == [ok |-> FALSE, errors |-> <<"pending">>]
NoPlan == [kind |-> "none"]
NoOutcome == [kind |-> "none"]
NoResult == [kind |-> "none"]

ValidatorIdle == vplan = NoPlan /\ vreport = NoReport
GeneratorIdle ==
    /\ pc = "idle" /\ messages = <<>> /\ requests = <<>>
    /\ received = <<>> /\ errs = <<>> /\ outcome = NoOutcome
ExtractorIdle == xdoc = <<>> /\ xplan = NoPlan /\ xresult = NoResult

genVars == <<pc, messages, requests, received, errs, outcome>>
valVars == <<vplan, vreport>>
extVars == <<xdoc, xplan, xresult>>

CompilerIdle == cprompt = <<>> /\ cspec = NoResult
ApplierIdle == arows = <<>> /\ aspec = NoResult /\ aout = NoResult
NormalizerIdle == nrows = <<>> /\ nout = NoResult
PipelineIdle ==
    session = NoResult /\ stage = "idle" /\ invoked = <<>> /\ shown = <<>>
ScraperIdle ==
    /\ surl = <<>> /\ sretries = 0 /\ spc = "idle" /\ sattempt = 0
    /\ sstrategy = 0 /\ slast = NoResult /\ slog = <<>> /\ sout = NoResult
OthersIdle ==
    CompilerIdle /\ ApplierIdle /\ NormalizerIdle /\ PipelineIdle /\ ScraperIdle

cmpVars == <<cprompt, cspec>>
aplVars == <<arows, aspec, aout>>
nrmVars == <<nrows, nout>>
pipVars == <<session, stage, invoked, shown>>
scrVars == <<surl, sretries, spc, sattempt, sstrategy, slast, slog, sout>>
otherVars == <<cmpVars, aplVars, nrmVars, pipVars, scrVars>>
coreVars == <<valVars, genVars, extVars>>
CoreIdle == ValidatorIdle /\ GeneratorIdle /\ ExtractorIdle

-----------------------------------------------------------------------------
(* The validator run: one call of _validate_plan on an arbitrary candidate *)

InitValidate ==
    /\ vplan \in PlanInputs
    /\ vreport = NoReport
    /\ GeneratorIdle
    /\ ExtractorIdle
    /\ OthersIdle

Validate ==
    /\ vplan # NoPlan
    /\ vreport = NoReport
    /\ vreport' = _validate_plan(vplan)
    /\ UNCHANGED <<vplan, genVars, extVars, otherVars>>

NextValidate == Validate

SpecValidate == InitValidate /\ [][NextValidate]_vars

-----------------------------------------------------------------------------
(* The validation rules, stated on the plan itself *)

HasLineBreak(s) == HasSub(s, "LF") \/ HasSub(s, "CR")

\* selector-safety with the patterns matched as written
SafeAsWritten(s) ==
    /\ \A k \in DOMAIN Forbidden : ~HasSub(s, Forbidden[k])
    /\ ~HasLineBreak(s)
    /\ StrLen(s) <= MaxSelectorLen

\* selector-safety with the patterns matched ignoring letter case
SafeIgnoringCase(s) ==
    /\ \A k \in DOMAIN Forbidden : ~HasSub(Lower(s), Forbidden[k])
    /\ ~HasLineBreak(s)
    /\ StrLen(s) <= MaxSelectorLen

NonEmptyStr(v) == IsStr(v) /\ v.s # <<>>
NonBlankStr(v) == IsStr(v) /\ \E i \in DOMAIN v.s : ~IsSpaceChunk(v.s[i])

\* the rules with "non-empty" and the patterns read literally
RulesAsWritten(plan) ==
    /\ plan.kind = "dict"
    /\ NonEmptyStr(plan.item_container)
    /\ SafeAsWritten(plan.item_container.s)
    /\ plan.fields.kind = "list"
    /\ plan.fields.items # <<>>
    /\ \A i \in DOMAIN plan.fields.items :
          LET f == plan.fields.items[i] IN
          /\ f.kind = "dict"
          /\ NonEmptyStr(f.name)
          /\ NonEmptyStr(f.selector)
          /\ SafeAsWritten(f.selector.s)
          /\ IsStr(f.type) /\ f.type.s \in TypeNames
          /\ f.fallback_selectors.kind = "list"
          /\ \A j \in DOMAIN f.fallback_selectors.items :
                /\ IsStr(f.fallback_selectors.items[j])
                /\ SafeAsWritten(f.fallback_selectors.items[j].s)

\* the rules with "non-empty" read as "not blank after trimming" and the
\* patterns matched ignoring case
RulesTrimmedIgnoringCase(plan) ==
    /\ plan.kind = "dict"
    /\ NonBlankStr(plan.item_container)
    /\ SafeIgnoringCase(plan.item_container.s)
    /\ plan.fields.kind = "list"
    /\ plan.fields.items # <<>>
    /\ \A i \in DOMAIN plan.fields.items :
          LET f == plan.fields.items[i] IN
          /\ f.kind = "dict"
          /\ NonBlankStr(f.name)
          /\ NonBlankStr(f.selector)
          /\ SafeIgnoringCase(f.selector.s)
          /\ IsStr(f.type) /\ f.type.s \in TypeNames
          /\ f.fallback_selectors.kind = "list"
          /\ \A j \in DOMAIN f.fallback_selectors.items :
                /\ IsStr(f.fallback_selectors.items[j])
                /\ SafeIgnoringCase(f.fallback_selectors.items[j].s)

InErrors(e) == \E i \in DOMAIN vreport.errors : vreport.errors[i] = e

\* the two examples of the claim: no fields; ':has(' in item_container
ValidatorExamples ==
    /\ (vplan.kind = "dict" /\ vplan.fields.kind # "list")
          => ~vreport.ok /\ InErrors("fields must be a non-empty list.")
    /\ (/\ vplan.kind = "dict"
        /\ NonBlankStr(vplan.item_container)
        /\ HasSub(vplan.item_container.s, ":has("))
          => /\ ~vreport.ok
             /\ InErrors("item_container invalid: Selector contains unsupported/forbidden feature: :has(")

\* C6 as stated: ok = TRUE exactly when the error list is empty, exactly when
\* the plan satisfies every rule, a string being acceptable when it is
\* non-empty and a selector being safe when it contains none of the five
\* patterns, no line break and at most 200 characters.
C6_OkIffRulesAsWritten ==
    vreport # NoReport =>
        /\ vreport.ok <=> (vreport.errors = <<>>)
        /\ vreport.ok <=> RulesAsWritten(vplan)
        /\ ValidatorExamples

\* C6 as amended: the same, with item_container, name and selector required
\* to be non-blank after trimming whitespace (not merely non-empty), and the
\* five patterns matched ignoring letter case; 200 characters are accepted,
\* 201 rejected.
C6_OkIffRulesTrimmedIgnoringCase ==
    vreport # NoReport =>
        /\ vreport.ok <=> (vreport.errors = <<>>)
        /\ vreport.ok <=> RulesTrimmedIgnoringCase(vplan)
        /\ ValidatorExamples

\* a plan accepted with an item_container of exactly 200 characters
C6_Witness ==
    /\ vreport # NoReport
    /\ vreport.ok
    /\ StrLen(vplan.item_container.s) = MaxSelectorLen

-----------------------------------------------------------------------------
(* Counting violations *)

RECURSIVE SumOver(_, _)
SumOver(f, n) == IF n = 0 THEN 0 ELSE f[n] + SumOver(f, n - 1)

B2N(b) == IF b THEN 1 ELSE 0

\* the selector-safety rules a string breaks: forbidden pattern, line break,
\* length
RulesBroken(s) ==
    B2N(\E k \in DOMAIN Forbidden : HasSub(Lower(s), Forbidden[k]))
    + B2N(HasLineBreak(s))
    + B2N(StrLen(s) > MaxSelectorLen)

\* one violation per rule broken
SelectorViolationsPerRule(v) ==
    IF ~NonBlankStr(v) THEN 1 ELSE RulesBroken(v.s)

\* one violation per unsafe selector
SelectorViolationsPerSelector(v) ==
    IF ~NonBlankStr(v) THEN 1 ELSE B2N(RulesBroken(v.s) > 0)

\* fallback entries: each bad entry (no string, or each rule it breaks)
FallbackViolationsPerRule(fb) ==
    IF fb.kind # "list" THEN 1
    ELSE SumOver([j \in DOMAIN fb.items |->
                    IF IsStr(fb.items[j]) THEN RulesBroken(fb.items[j].s) ELSE 1],
                 Len(fb.items))

\* fallback entries: one for a list that is no list of strings, else one per
\* unsafe entry
FallbackViolationsPerEntry(fb) ==
    IF fb.kind # "list" \/ \E j \in DOMAIN fb.items : ~IsStr(fb.items[j]) THEN 1
    ELSE SumOver([j \in DOMAIN fb.items |-> B2N(RulesBroken(fb.items[j].s) > 0)],
                 Len(fb.items))

FieldViolations(f, perRule) ==
    IF f.kind # "dict" THEN 1
    ELSE B2N(~NonBlankStr(f.name))
         + (IF perRule THEN SelectorViolationsPerRule(f.selector)
                       ELSE SelectorViolationsPerSelector(f.selector))
         + B2N(~(IsStr(f.type) /\ f.type.s \in TypeNames))
         + (IF perRule THEN FallbackViolationsPerRule(f.fallback_selectors)
                       ELSE FallbackViolationsPerEntry(f.fallback_selectors))

PlanViolations(plan, perRule) ==
    IF plan.kind # "dict" THEN 1
    ELSE (IF perRule THEN SelectorViolationsPerRule(plan.item_container)
                     ELSE SelectorViolationsPerSelector(plan.item_container))
         + (IF plan.fields.kind # "list" \/ plan.fields.items = <<>> THEN 1
            ELSE SumOver([i \in DOMAIN plan.fields.items |->
                            FieldViolations(plan.fields.items[i], perRule)],
                         Len(plan.fields.items)))

\* C7 as stated: every violation, each selector-safety rule a selector breaks
\* and each bad fallback entry included, contributes its own error: the number
\* of errors equals the number of violations.
C7_OneErrorPerRuleBroken ==
    vreport # NoReport => Len(vreport.errors) = PlanViolations(vplan, TRUE)

\* C7 as amended: every position of the plan that breaks a rule
\* (item_container, fields, and per field the record, name, selector, type,
\* the fallback list and each fallback entry) contributes exactly one error
\* and checking goes on after it; an unsafe selector contributes one error
\* only, for the first rule it breaks in the order forbidden pattern, line
\* break, length, and a fallback list holding a non-string contributes one
\* error for the whole list.
C7_OneErrorPerBadPosition ==
    vreport # NoReport =>
        /\ Len(vreport.errors) = PlanViolations(vplan, FALSE)
        /\ (/\ vplan.kind = "dict"
            /\ NonBlankStr(vplan.item_container)
            /\ HasSub(Lower(vplan.item_container.s), ":has(")
            /\ HasLineBreak(vplan.item_container.s))
              => /\ InErrors("item_container invalid: Selector contains unsupported/forbidden feature: :has(")
                 /\ ~InErrors("item_container invalid: Selector contains newlines")

\* a report of several errors for a plan whose item_container breaks two rules
\* and whose field is bad in several places
C7_Witness ==
    /\ vreport # NoReport
    /\ Len(vreport.errors) >= 4
    /\ vplan.kind = "dict"
    /\ NonBlankStr(vplan.item_container)
    /\ RulesBroken(vplan.item_container.s) = 2

-----------------------------------------------------------------------------
(* planner.py: the plan generator.  A text of several lines is the sequence *)
(* of its lines; no error message holds a line break.                      *)

UserPrompts == {"only hoodies", "price above 10000"}
CleanedHtmls == {"<div class=item>..</div>", "<ul><li>..</li></ul>"}
CleanedTexts == {"Hoodie 1,299"}

\* _build_messages: the system turn and the user turn
_build_messages(user_prompt, cleaned_html, cleaned_text) ==
    <<[role |-> "system",
       content |-> <<"You are a web scraping planner.", "VERY IMPORTANT RULES:">>],
      [role |-> "user",
       content |-> <<"USER PROMPT:", user_prompt, "",
                     "CLEANED HTML (truncated):", cleaned_html, "",
                     "CLEANED TEXT (truncated):", cleaned_text>>]>>

NoFeedback == <<>>

\* mutant: the feedback names the first error only
feedback_first_error_only(es) ==
    <<"Plan validation errors:">> \o <<"- " \o es[1]>>

\* line 206: "Plan validation errors:\n" + "\n".join(f"- {e}" for e in errs)
feedback(es) ==
    <<"Plan validation errors:">> \o [i \in DOMAIN es |-> "- " \o es[i]]

\* call_once, lines 167-178: the turns of one oracle request
input_msgs(extra_feedback) ==
    IF extra_feedback # NoFeedback
    THEN Append(messages,
                [role |-> "user",
                 content |-> <<"The previous plan failed validation.",
                               "Fix the plan according to this feedback:">>
                             \o extra_feedback])
    ELSE messages

PlanResult(plan, attempts) ==
    [kind |-> "returned", plan |-> plan, model |-> "gpt-4o-mini",
     attempts |-> attempts]

Raised(type, message) == [kind |-> "raised", type |-> type, message |-> message]

\* what client.responses.create and json.loads raise (lines 180, 197)
OracleErrors == {"APITimeoutError", "JSONDecodeError"}

\* mutant: a second invalid candidate is answered by one more request
after_candidate_retries_again(n, plan) ==
    LET v == _validate_plan(plan) IN
    IF v.ok
    THEN [pc |-> "done", requests |-> requests, errs |-> v.errors,
          outcome |-> PlanResult(plan, n)]
    ELSE IF Len(requests) < 3
    THEN [pc |-> "wait2",
          requests |-> Append(requests, input_msgs(feedback(v.errors))),
          errs |-> v.errors, outcome |-> NoOutcome]
    ELSE [pc |-> "done", requests |-> requests, errs |-> v.errors,
          outcome |-> Raised("RuntimeError",
                        <<"Plan validation failed after retry:">> \o v.errors)]

\* mutant: the second attempt returns the first candidate, as attempt 2
after_candidate_returns_first(n, plan) ==
    LET v == _validate_plan(plan) IN
    IF v.ok
    THEN [pc |-> "done", requests |-> requests, errs |-> v.errors,
          outcome |-> PlanResult(IF n = 1 THEN plan ELSE received[1], n)]
    ELSE IF n = 1
    THEN [pc |-> "wait2",
          requests |-> Append(requests, input_msgs(feedback(v.errors))),
          errs |-> v.errors, outcome |-> NoOutcome]
    ELSE [pc |-> "done", requests |-> requests, errs |-> v.errors,
          outcome |-> Raised("RuntimeError",
                        <<"Plan validation failed after retry:">> \o v.errors)]

\* mutant: the fatal error carries the errors of the first candidate
after_candidate_raises_first_errors(n, plan) ==
    LET v == _validate_plan(plan) IN
    IF v.ok
    THEN [pc |-> "done", requests |-> requests, errs |-> v.errors,
          outcome |-> PlanResult(plan, n)]
    ELSE IF n = 1
    THEN [pc |-> "wait2",
          requests |-> Append(requests, input_msgs(feedback(v.errors))),
          errs |-> v.errors, outcome |-> NoOutcome]
    ELSE [pc |-> "done", requests |-> requests, errs |-> v.errors,
          outcome |-> Raised("RuntimeError",
                        <<"Plan validation failed after retry:">> \o errs)]

\* lines 200-213 from the return of call_once at attempt n on: validate the
\* candidate, then return it, ask again with feedback (n = 1), or raise (n = 2)
after_candidate(n, plan) ==
    LET v == _validate_plan(plan) IN
    IF v.ok
    THEN [pc |-> "done", requests |-> requests, errs |-> v.errors,
          outcome |-> PlanResult(plan, n)]
    ELSE IF n = 1
    THEN [pc |-> "wait2",
          requests |-> Append(requests, input_msgs(feedback(v.errors))),
          errs |-> v.errors, outcome |-> NoOutcome]
    ELSE [pc |-> "done", requests |-> requests, errs |-> v.errors,
          outcome |-> Raised("RuntimeError",
                        <<"Plan validation failed after retry:">> \o v.errors)]

\* mutant: a failed first call is tried once more
after_oracle_error_retries(n, e) ==
    IF n = 1
    THEN [pc |-> "wait2", requests |-> Append(requests, input_msgs(NoFeedback)),
          outcome |-> NoOutcome]
    ELSE [pc |-> "done", requests |-> requests, outcome |-> Raised(e, <<>>)]

\* call_once raising at attempt n: nothing in generate_extraction_plan catches
\* it, so the error leaves the function
after_oracle_error(n, e) ==
    [pc |-> "done", requests |-> requests, outcome |-> Raised(e, <<>>)]

Attempt(p) == IF p = "wait1" THEN 1 ELSE 2

\* candidates the oracle may answer with
OraclePlans ==
    {Plan(Str(<<"div">>), List(<<GoodFieldA>>)),
     Plan(Str(<<"div", " ", "a">>), List(<<GoodFieldA, GoodFieldB>>)),
     Plan(Str(<<"div">>), List(<<GoodFieldA, DupFieldA>>)),
     Plan(None, List(<<GoodFieldA>>)),
     Plan(Str(<<":has(", "LF", "a">>), List(<<BadField>>)),
     Plan(Str(<<"div">>), NotAList),
     Plan(Str(<<" ">>), List(<<BadFallbackField, NotADict>>)),
     [kind |-> "list"]}

InitGen ==
    /\ pc = "start"
    /\ \E up \in UserPrompts, ch \in CleanedHtmls, ct \in CleanedTexts :
          messages = _build_messages(up, ch, ct)
    /\ requests = <<>>
    /\ received = <<>>
    /\ errs = <<>>
    /\ outcome = NoOutcome
    /\ ValidatorIdle
    /\ ExtractorIdle
    /\ OthersIdle

\* line 200: plan = call_once(), up to the request leaving
FirstCall ==
    /\ pc = "start"
    /\ requests' = Append(requests, input_msgs(NoFeedback))
    /\ pc' = "wait1"
    /\ UNCHANGED <<messages, received, errs, outcome, valVars, extVars, otherVars>>

\* the oracle answers with text that parses: lines 196-197, then 201-213
OracleAnswers ==
    /\ pc \in {"wait1", "wait2"}
    /\ \E plan \in OraclePlans :
          LET nx == after_candidate(Attempt(pc), plan) IN
          /\ received' = Append(received, plan)
          /\ pc' = nx.pc
          /\ requests' = nx.requests
          /\ errs' = nx.errs
          /\ outcome' = nx.outcome
    /\ UNCHANGED <<messages, valVars, extVars, otherVars>>

\* the call times out, or the answer does not parse as JSON
OracleFails ==
    /\ pc \in {"wait1", "wait2"}
    /\ \E e \in OracleErrors :
          LET nx == after_oracle_error(Attempt(pc), e) IN
          /\ pc' = nx.pc
          /\ requests' = nx.requests
          /\ outcome' = nx.outcome
    /\ UNCHANGED <<messages, received, errs, valVars, extVars, otherVars>>

NextGen == FirstCall \/ OracleAnswers \/ OracleFails

SpecGen == InitGen /\ [][NextGen]_vars

\* the oracle call is bounded by timeout_s (line 185): it answers or fails
FairSpecGen == SpecGen /\ WF_vars(NextGen)

-----------------------------------------------------------------------------
(* Claims about the plan generator *)

Valid(plan) == _validate_plan(plan).ok

AcceptedAt(n) == outcome.kind = "returned" /\ outcome.attempts = n
FatalValidation == outcome.kind = "raised" /\ outcome.type = "RuntimeError"
OracleFailure == outcome.kind = "raised" /\ outcome.type \in OracleErrors

AtMostTwoRequests ==
    /\ Len(requests) <= 2
    /\ pc \in {"start", "wait1", "wait2", "done"}
    /\ pc # "done" => outcome = NoOutcome
    /\ pc = "done" =>
          Cardinality({k \in 1..4 :
              \/ k = 1 /\ AcceptedAt(1)
              \/ k = 2 /\ AcceptedAt(2)
              \/ k = 3 /\ FatalValidation
              \/ k = 4 /\ OracleFailure}) = 1

\* C1: whatever the oracle does, one invocation issues at most two oracle
\* requests and ends in exactly one of: accepted at attempt 1, accepted at
\* attempt 2, fatal validation failure, oracle failure.
C1_AtMostTwoRequestsThenTerminal ==
    []AtMostTwoRequests /\ <>(pc = "done")

\* two invalid candidates, two requests, the fatal outcome
C1_Witness ==
    /\ pc = "done"
    /\ Len(requests) = 2
    /\ FatalValidation

\* C2: a returned plan is the candidate received last, it passes validation,
\* and attempts is the number of requests issued: 1 when the first candidate
\* is valid (no second request), 2 when the first is invalid and the second
\* valid.
C2_ReturnsLatestValidCandidate ==
    /\ outcome.kind = "returned" =>
          /\ received # <<>>
          /\ outcome.plan = received[Len(received)]
          /\ Valid(outcome.plan)
          /\ outcome.attempts = Len(requests)
          /\ outcome.attempts = Len(received)
          /\ outcome.attempts \in {1, 2}
          /\ (outcome.attempts = 2) <=> ~Valid(received[1])
    /\ (received # <<>> /\ Valid(received[1])) =>
          /\ Len(requests) = 1
          /\ outcome = PlanResult(received[1], 1)

\* the second candidate returned after a different, invalid first one
C2_Witness ==
    /\ outcome.kind = "returned"
    /\ outcome.attempts = 2
    /\ received[1] # received[2]
    /\ outcome.plan = received[2]

\* C3: when both candidates fail validation no plan is returned and the
\* RuntimeError raised carries every validation error of the second
\* candidate, in validator order.
C3_FatalCarriesSecondErrors ==
    (Len(received) = 2 /\ ~Valid(received[1]) /\ ~Valid(received[2])) =>
        /\ pc = "done"
        /\ Len(requests) = 2
        /\ outcome.kind = "raised"
        /\ outcome.type = "RuntimeError"
        /\ outcome.message
              = <<"Plan validation failed after retry:">>
                \o _validate_plan(received[2]).errors

\* two invalid candidates with different errors, the second with several
C3_Witness ==
    /\ pc = "done"
    /\ Len(received) = 2
    /\ FatalValidation
    /\ _validate_plan(received[1]).errors # _validate_plan(received[2]).errors
    /\ Len(_validate_plan(received[2]).errors) >= 3

\* a request was issued that brought no candidate
OracleCallFailed == pc = "done" /\ Len(received) < Len(requests)

OracleFailureIsFinal ==
    /\ Len(requests) <= Len(received) + 1
    /\ OracleCallFailed =>
          /\ outcome.kind = "raised"
          /\ outcome.type \in OracleErrors
          /\ outcome.type # "RuntimeError"
    /\ FatalValidation =>
          Len(received) = 2 /\ ~Valid(received[1]) /\ ~Valid(received[2])

\* C4: an oracle call that fails, at attempt 1 or 2, is followed by no
\* further request; no plan is returned and no attempt recorded; the error
\* that leaves the function is not the RuntimeError of a validation failure.
C4_OracleFailureNotRetried ==
    /\ []OracleFailureIsFinal
    /\ [][(pc \in {"wait1", "wait2"} /\ received' = received)
            => (requests' = requests /\ pc' = "done")]_vars
    /\ [][pc # "done"]_vars

\* the second call fails after an invalid first candidate
C4_Witness ==
    /\ OracleCallFailed
    /\ Len(requests) = 2
    /\ OracleFailure

IsFeedbackTurn(t) ==
    /\ t.role = "user"
    /\ t.content[1] = "The previous plan failed validation."

\* C5: a second request is issued iff the first candidate was received and
\* failed validation; it is the first request's turns followed by one
\* feedback turn that lists every error of the first validation, one per
\* line, each prefixed "- ", in validator order.  The first request carries
\* no feedback turn.
C5_SecondRequestIsFirstPlusFeedback ==
    /\ Len(requests) >= 1 =>
          /\ requests[1] = messages
          /\ \A i \in DOMAIN requests[1] : ~IsFeedbackTurn(requests[1][i])
    /\ (Len(requests) >= 2) <=> (received # <<>> /\ ~Valid(received[1]))
    /\ Len(requests) >= 2 =>
          LET first == requests[1]
              second == requests[2]
              es == _validate_plan(received[1]).errors
              turn == second[Len(second)]
              n == Len(turn.content)
          IN  /\ Len(second) = Len(first) + 1
              /\ SubSeq(second, 1, Len(first)) = first
              /\ IsFeedbackTurn(turn)
              /\ es # <<>>
              /\ n >= Len(es)
              /\ SubSeq(turn.content, n - Len(es) + 1, n)
                    = [i \in DOMAIN es |-> "- " \o es[i]]

\* a second request whose feedback lists several errors
C5_Witness ==
    /\ Len(requests) = 2
    /\ Len(_validate_plan(received[1]).errors) >= 3
    /\ IsFeedbackTurn(requests[2][3])

-----------------------------------------------------------------------------
(* extractor.py: the extraction engine.  The parsed document is a sequence  *)
(* of top-level elements in document order, each with its child elements;  *)
(* an element matches a selector when the selector, surrounding whitespace *)
(* aside, is the element's class.                                          *)

Element(cls, text, attrs, children) ==
    [cls |-> cls, text |-> text, attrs |-> attrs, children |-> children]

NoEl == [cls |-> "none"]

Null == [t |-> "null", v |-> <<>>]
TextV(s) == [t |-> "str", v |-> s]
NumV(n) == [t |-> "num", v |-> n]
BoolV(b) == [t |-> "bool", v |-> b]

Matches(el, sel) == Strip(sel) = <<el.cls>>

\* soup.select(sel): every element of the document that matches, in document
\* order (an element before its children)
RECURSIVE Flatten(_)
Flatten(doc) ==
    IF doc = <<>> THEN <<>>
    ELSE <<Head(doc)>> \o Head(doc).children \o Flatten(Tail(doc))

select(doc, sel) == SelectSeq(Flatten(doc), LAMBDA el : Matches(el, sel))

\* container.select_one(sel): the first match among the container's children
select_one(container, sel) ==
    LET hits == {i \in DOMAIN container.children :
                    Matches(container.children[i], sel)}
    IN  IF hits = {} THEN NoEl ELSE container.children[Min(hits)]

Max(S) == CHOOSE m \in S : \A n \in S : m >= n

\* mutant: the last selector of the list that matches wins
_first_match_last_wins(container, selectors) ==
    LET hits == {j \in DOMAIN selectors :
                    /\ Strip(selectors[j]) # <<>>
                    /\ select_one(container, selectors[j]) # NoEl}
    IN  IF hits = {} THEN [el |-> NoEl, sel |-> <<>>]
        ELSE [el |-> select_one(container, selectors[Max(hits)]),
              sel |-> selectors[Max(hits)]]

\* _first_match: (el, sel) of the first non-blank selector that matches, or
\* (None, None)
_first_match(container, selectors) ==
    LET hits == {j \in DOMAIN selectors :
                    /\ Strip(selectors[j]) # <<>>
                    /\ select_one(container, selectors[j]) # NoEl}
    IN  IF hits = {} THEN [el |-> NoEl, sel |-> <<>>]
        ELSE [el |-> select_one(container, selectors[Min(hits)]),
              sel |-> selectors[Min(hits)]]

\* _extract_text: el.get_text(" ", strip=True).strip()
_extract_text(el) == Strip(el.text)

AttrOf(el, key) ==
    LET hits == {i \in DOMAIN el.attrs : el.attrs[i][1] = key}
    IN  IF hits = {} THEN <<>> ELSE el.attrs[Min(hits)][2]

\* "href" in k.lower()
KeyHasHref(k) == k \in {"href", "data-href", "HREF"}

\* _extract_url: href, else the first attribute named like href with a
\* non-blank value, else the text
_extract_url(el) ==
    LET href == AttrOf(el, "href")
        hits == {i \in DOMAIN el.attrs :
                    KeyHasHref(el.attrs[i][1]) /\ Strip(el.attrs[i][2]) # <<>>}
    IN  IF href # <<>> THEN Strip(href)
        ELSE IF hits # {} THEN Strip(el.attrs[Min(hits)][2])
        ELSE _extract_text(el)

\* float() of the text left after keeping digits, dots, commas and minus and
\* dropping the commas; -1 where nothing parsable is left
ParsedNumber(s) ==
    CASE s = <<"1,299">> -> 1299
      [] s = <<"Rs", " ", "1,299">> -> 1299
      [] s = <<"12">> -> 12
      [] OTHER -> -1

\* _to_number
_to_number(s) ==
    IF Strip(s) = <<>> THEN Null
    ELSE IF ParsedNumber(Strip(s)) < 0 THEN Null
    ELSE NumV(ParsedNumber(Strip(s)))

\* _extract_by_type
_extract_by_type(el, field_type) ==
    IF el = NoEl THEN Null
    ELSE IF field_type = Str(<<"text">>) THEN TextV(_extract_text(el))
    ELSE IF field_type = Str(<<"url">>) THEN TextV(_extract_url(el))
    ELSE IF field_type = Str(<<"number">>) THEN _to_number(_extract_text(el))
    ELSE IF field_type = Str(<<"bool">>)
    THEN LET txt == Lower(_extract_text(el)) IN
         IF txt \in {<<"true">>, <<"yes">>, <<"available">>, <<"in stock">>}
         THEN BoolV(TRUE)
         ELSE IF txt \in {<<"false">>, <<"no">>, <<"unavailable">>,
                          <<"out of stock">>}
         THEN BoolV(FALSE)
         ELSE Null
    ELSE TextV(_extract_text(el))

\* row[key] = value on a dict that keeps insertion order
DictSet(row, key, value) ==
    IF \E i \in DOMAIN row : row[i].name = key
    THEN [i \in DOMAIN row |->
            IF row[i].name = key THEN [name |-> key, value |-> value] ELSE row[i]]
    ELSE Append(row, [name |-> key, value |-> value])

\* lines 126-130: the selectors tried for a field, stripped, blanks left out
selectors_of(f) ==
    (IF IsStr(f.selector) /\ Strip(f.selector.s) # <<>>
     THEN <<Strip(f.selector.s)>> ELSE <<>>)
    \o (IF f.fallback_selectors.kind = "list"
        THEN LET fb == f.fallback_selectors.items
                 keep == SelectSeq(fb, LAMBDA x : IsStr(x) /\ Strip(x.s) # <<>>)
             IN  [j \in DOMAIN keep |-> Strip(keep[j].s)]
        ELSE <<>>)

\* lines 118-134 for one field of one item: what was tried and found
resolve(item, f) ==
    LET m == _first_match(item, selectors_of(f))
    IN  [skipped |-> ~IsStr(f.name) \/ Strip(f.name.s) = <<>>,
         used |-> m.sel,
         value |-> _extract_by_type(m.el, f.type)]

\* lines 116-134: the row of one item, from field i on
RECURSIVE row_from(_, _, _, _)
row_from(item, fields, i, row) ==
    IF i > Len(fields) THEN row
    ELSE LET r == resolve(item, fields[i])
         IN  row_from(item, fields, i + 1,
                IF r.skipped THEN row
                ELSE DictSet(row, Strip(fields[i].name.s), r.value))

\* mutant: a row is kept only when every value is filled
keep_row_all_values(row) ==
    \A i \in DOMAIN row :
        /\ row[i].value # Null
        /\ ~(row[i].value.t = "str" /\ Strip(row[i].value.v) = <<>>)

\* line 137: any(v is not None and str(v).strip() != "")
keep_row(row) ==
    \E i \in DOMAIN row :
        /\ row[i].value # Null
        /\ ~(row[i].value.t = "str" /\ Strip(row[i].value.v) = <<>>)

\* not item_sel / not fields
Falsy(v) == v.kind = "none" \/ (v.kind = "str" /\ v.s = <<>>)

\* extract_rows_from_plan; `steps` records, per matched item, the row built
\* for it and what each field resolved to
extract_rows_from_plan(doc, plan) ==
    IF plan.kind # "dict"
    THEN Raised("ValueError", <<"plan must be a dict">>)
    ELSE IF Falsy(plan.item_container) \/ ~IsStr(plan.item_container)
    THEN Raised("ValueError", <<"plan.item_container is missing or invalid">>)
    ELSE IF plan.fields.kind # "list" \/ plan.fields.items = <<>>
    THEN Raised("ValueError", <<"plan.fields is missing or invalid">>)
    ELSE LET items == select(doc, plan.item_container.s)
             fields == plan.fields.items
             steps == [k \in DOMAIN items |->
                         [row |-> row_from(items[k], fields, 1, <<>>),
                          fields |-> [i \in DOMAIN fields |->
                                        resolve(items[k], fields[i])]]]
             kept == SelectSeq(steps, LAMBDA st : keep_row(st.row))
         IN  IF items # <<>> /\ \E i \in DOMAIN fields : fields[i].kind # "dict"
             THEN Raised("AttributeError", <<"object has no attribute 'get'">>)
             ELSE [kind |-> "ok",
                   rows |-> [k \in DOMAIN kept |-> kept[k].row],
                   item_count |-> Len(items),
                   items |-> items,
                   steps |-> steps]

-----------------------------------------------------------------------------
(* The extractor run: one call of extract_rows_from_plan *)

Title == Element(".t", <<"Hoodie">>, <<>>, <<>>)
EmptyTitle == Element(".t", <<" ">>, <<>>, <<>>)
Price == Element(".p", <<"Rs", " ", "1,299">>, <<>>, <<>>)
Link == Element(".alt", <<"yes">>, <<<<"class", <<"alt">>>>, <<"href", <<"/x">>>>>>, <<>>)

ChildInputs == {Title, EmptyTitle, Price, Link}

\* the top-level elements: items with up to two children, and one element of
\* another class
ItemInputs ==
    {Element(".item", <<>>, <<>>, cs) : cs \in SeqsUpTo(ChildInputs, 0, 2)}
    \cup {Element(".other", <<>>, <<>>, <<Title>>)}

DocInputs == SeqsUpTo(ItemInputs, 0, MaxItems)

TitleField == Field(Str(<<"title">>), Str(<<".t">>), Str(<<"text">>), List(<<>>))
PriceField ==
    Field(Str(<<"price">>), Str(<<".p">>), Str(<<"number">>),
          List(<<Str(<<".alt">>)>>))
FallbackField ==
    Field(Str(<<"title">>), Str(<<".missing">>), Str(<<"text">>),
          List(<<Str(<<>>), Str(<<" ">>), Str(<<" ", ".p">>), Str(<<".t">>)>>))
LinkField == Field(Str(<<"link">>), Str(<<".alt">>), Str(<<"url">>),
                   List(<<Str(<<".t">>)>>))
StockField == Field(Str(<<"stock">>), Str(<<".alt">>), Str(<<"bool">>), List(<<>>))
TitleAgainField ==
    Field(Str(<<"title">>), Str(<<".p">>), Str(<<"date">>), List(<<>>))
PaddedField ==
    Field(Str(<<" ", "title">>), Str(<<" ", ".alt", " ">>), Str(<<"text">>),
          List(<<>>))
BlankNameField == Field(Str(<<" ">>), Str(<<".t">>), Str(<<"text">>), List(<<>>))

\* plans handed to the engine: plans the validator accepts (one of them with
\* a field name used twice) and plans it rejects
ExtractPlanInputs ==
    {Plan(Str(<<".item">>), List(fs)) :
        fs \in {<<TitleField>>, <<TitleField, PriceField>>, <<FallbackField>>,
                <<LinkField, StockField>>, <<PriceField, PaddedField>>,
                <<TitleField, TitleAgainField>>, <<BlankNameField, PriceField>>,
                <<TitleField, NotADict>>}}
    \cup {Plan(Str(<<".t">>), List(<<TitleField>>)),
          Plan(Str(<<".none">>), List(<<TitleField, NotADict>>)),
          Plan(None, List(<<TitleField>>)),
          Plan(Str(<<>>), List(<<TitleField>>)),
          Plan(Num, List(<<TitleField>>)),
          Plan(Str(<<".item">>), NotAList),
          Plan(Str(<<".item">>), List(<<>>)),
          [kind |-> "list"]}

InitExtract ==
    /\ xdoc \in DocInputs
    /\ xplan \in ExtractPlanInputs
    /\ xresult = NoResult
    /\ ValidatorIdle
    /\ GeneratorIdle
    /\ OthersIdle

Extract ==
    /\ xplan # NoPlan
    /\ xresult = NoResult
    /\ xresult' = extract_rows_from_plan(xdoc, xplan)
    /\ UNCHANGED <<xdoc, xplan, valVars, genVars, otherVars>>

NextExtract == Extract

SpecExtract == InitExtract /\ [][NextExtract]_vars

-----------------------------------------------------------------------------
(* Claims about the extraction engine *)

Names(plan) == [i \in DOMAIN plan.fields.items |-> plan.fields.items[i].name]

DistinctNames(plan) ==
    \A i, j \in DOMAIN plan.fields.items :
        i # j => Strip(Names(plan)[i].s) # Strip(Names(plan)[j].s)

Extracted == xresult # NoResult /\ xresult.kind = "ok"

\* C8: in every plan the validator accepts the field names are pairwise
\* distinct, so every extracted row has exactly one entry per plan field, in
\* plan field order.
C8_AcceptedPlanNamesDistinct ==
    (Extracted /\ Valid(xplan) /\ xresult.rows # <<>>) =>
        /\ \A i, j \in DOMAIN xplan.fields.items :
              i # j => Names(xplan)[i] # Names(xplan)[j]
        /\ \A k \in DOMAIN xresult.rows :
              /\ Len(xresult.rows[k]) = Len(xplan.fields.items)
              /\ \A i \in DOMAIN xresult.rows[k] :
                    xresult.rows[k][i].name = Strip(Names(xplan)[i].s)

\* a plan as the data model has it: accepted by the validator, field names
\* unique
WellFormed(plan) == Valid(plan) /\ DistinctNames(plan)

\* the places of the document where an element of class sel stands
MatchPlaces(doc, sel) ==
    {<<i, 0>> : i \in {i \in DOMAIN doc : <<doc[i].cls>> = sel}}
    \cup UNION {{<<i, j>> : j \in {j \in DOMAIN doc[i].children :
                                      <<doc[i].children[j].cls>> = sel}} :
                 i \in DOMAIN doc}

NullOrBlank(v) == v = Null \/ (v.t = "str" /\ \A i \in DOMAIN v.v : IsSpaceChunk(v.v[i]))

\* the matched items whose field values are not all null or blank
Filled ==
    {k \in DOMAIN xresult.steps :
        \E i \in DOMAIN xresult.steps[k].fields :
            ~NullOrBlank(xresult.steps[k].fields[i].value)}

\* C9: for a well-formed plan, matched_item_count is the number of elements
\* matching item_container; at most that many rows are emitted; the rows are
\* those of the items, in document order, whose field values are not all null
\* or blank: an item's row is omitted iff every field value is null or blank.
C9_RowsAreFilledItemsInOrder ==
    (Extracted /\ WellFormed(xplan)) =>
        /\ xresult.item_count
              = Cardinality(MatchPlaces(xdoc, Strip(xplan.item_container.s)))
        /\ Len(xresult.steps) = xresult.item_count
        /\ Len(xresult.rows) <= xresult.item_count
        /\ Len(xresult.rows) = Cardinality(Filled)
        /\ \A k \in Filled :
              xresult.rows[Cardinality({j \in Filled : j <= k})]
                 = xresult.steps[k].row
        /\ \A k \in DOMAIN xresult.steps :
              LET st == xresult.steps[k] IN
              /\ Len(st.row) = Len(st.fields)
              /\ \A i \in DOMAIN st.fields : st.row[i].value = st.fields[i].value

\* two matched items, the first with no field matched and so without a row
C9_Witness ==
    /\ Extracted
    /\ WellFormed(xplan)
    /\ Len(xplan.fields.items) = 2
    /\ xresult.item_count >= 2
    /\ Len(xresult.rows) = xresult.item_count - 1
    /\ 1 \notin Filled

\* [selector] + fallback_selectors, as the plan has them
AttemptList(f) ==
    <<f.selector.s>>
    \o [j \in DOMAIN f.fallback_selectors.items |-> f.fallback_selectors.items[j].s]

ChildrenMatching(item, sel) ==
    {c \in DOMAIN item.children : <<item.children[c].cls>> = Strip(sel)}

\* C10: for each matched item and each field, the selectors of
\* [selector] + fallback_selectors are tried in order, blank ones skipped,
\* within the item only; the value comes from the first entry that matches
\* anything and is null when no entry matches.
C10_FirstMatchingSelectorWins ==
    (Extracted /\ Valid(xplan)) =>
        \A k \in DOMAIN xresult.steps :
            \A i \in DOMAIN xplan.fields.items :
                LET item == xresult.items[k]
                    f == xplan.fields.items[i]
                    list == AttemptList(f)
                    st == xresult.steps[k].fields[i]
                    cand == {j \in DOMAIN list :
                                /\ Strip(list[j]) # <<>>
                                /\ ChildrenMatching(item, list[j]) # {}}
                IN  /\ cand = {} => st.value = Null
                    /\ cand # {} =>
                          LET j == Min(cand)
                              c == Min(ChildrenMatching(item, list[j]))
                          IN  /\ st.used = Strip(list[j])
                              /\ st.value = _extract_by_type(item.children[c], f.type)
                    /\ DistinctNames(xplan) =>
                          xresult.steps[k].row[i]
                             = [name |-> Strip(f.name.s), value |-> st.value]

\* the primary selector and two blank fallbacks miss, the third entry matches
\* and a later one would match too
C10_Witness ==
    /\ Extracted
    /\ xplan.fields.items = <<FallbackField>>
    /\ \E k \in DOMAIN xresult.steps :
          /\ xresult.steps[k].fields[1].used = <<".p">>
          /\ ChildrenMatching(xresult.items[k], <<".t">>) # {}
          /\ xresult.steps[k].fields[1].value = TextV(<<"Rs", " ", "1,299">>)

-----------------------------------------------------------------------------
(* The engine's re-check of the plan it is handed *)

\* the plans the re-check is said to refuse: not a record, item_container
\* absent, empty or not a string, fields absent, empty or not a sequence, or
\* a fields entry that is not a record
MalformedPlan(plan) ==
    \/ plan.kind # "dict"
    \/ plan.item_container = None
    \/ plan.item_container = Str(<<>>)
    \/ ~IsStr(plan.item_container)
    \/ plan.fields.kind # "list"
    \/ plan.fields.items = <<>>
    \/ \E i \in DOMAIN plan.fields.items : plan.fields.items[i].kind # "dict"

InputError == xresult.kind = "raised" /\ xresult.type = "ValueError"

\* C11: whenever the plan is not a record, its item_container is absent,
\* empty or not a string, its fields is absent, empty or not a sequence, or a
\* fields entry is not a record, the call fails with the input error and
\* produces neither rows nor a match count.
C11_MalformedPlanIsInputError ==
    (xresult # NoResult /\ MalformedPlan(xplan)) => InputError

-----------------------------------------------------------------------------
(* Text as character sequences                                              *)
(*                                                                          *)
(* The filter compiler, the filter applier and the row normalizer search    *)
(* and rewrite text character by character.  Their strings are sequences    *)
(* of one-character chunks, so Lower, Strip and StrLen above apply as they  *)
(* are, and the regular expressions of filtering.py are evaluated position  *)
(* by position.                                                             *)

Digits == {"0", "1", "2", "3", "4", "5", "6", "7", "8", "9"}

LowerLetters ==
    {"a", "b", "c", "d", "e", "f", "g", "h", "i", "j", "k", "l", "m", "n",
     "o", "p", "q", "r", "s", "t", "u", "v", "w", "x", "y", "z"}

IsDigit(c) == c \in Digits

\* \s
Spaces == {" ", "LF", "CR"}

DigitVal(c) ==
    CASE c = "0" -> 0 [] c = "1" -> 1 [] c = "2" -> 2 [] c = "3" -> 3
      [] c = "4" -> 4 [] c = "5" -> 5 [] c = "6" -> 6 [] c = "7" -> 7
      [] c = "8" -> 8 [] c = "9" -> 9

\* \w of a lower-cased text
IsWordChar(c) == c \in LowerLetters \cup Digits \cup {"_"}

\* the class [a-z0-9\-\s'] of the phrase patterns
PhraseChars == LowerLetters \cup Digits \cup {"-", "'"} \cup Spaces

\* s[i:].startswith(lit)
StartsAt(s, i, lit) ==
    /\ i >= 1
    /\ i + Len(lit) - 1 <= Len(s)
    /\ SubSeq(s, i, i + Len(lit) - 1) = lit

\* Python's `f in s` for character sequences
Contains(s, f) == \E i \in 1..(Len(s) + 1) : StartsAt(s, i, f)

\* the first index from i on whose character is outside the class, or
\* Len(s) + 1: where a greedy run of the class that starts at i ends
RunEnd(s, i, class) ==
    Min({j \in i..(Len(s) + 1) : j > Len(s) \/ s[j] \notin class})

\* \b between s[i-1] and s[i]
WordBoundary(s, i) ==
    (i > 1 /\ IsWordChar(s[i - 1])) # (i <= Len(s) /\ IsWordChar(s[i]))

\* re.sub(r"\s+", " ", s)
RECURSIVE CollapseSpaces(_)
CollapseSpaces(s) ==
    IF s = <<>> THEN <<>>
    ELSE IF IsSpaceChunk(Head(s))
    THEN <<" ">> \o CollapseSpaces(LStrip(s))
    ELSE <<Head(s)>> \o CollapseSpaces(Tail(s))

\* filtering.py _norm
_norm(s) == CollapseSpaces(Lower(Strip(s)))

\* str.split(): the maximal runs of non-whitespace characters
RECURSIVE SplitWords(_)
SplitWords(s) ==
    LET t == LStrip(s)
        e == Min({j \in 1..(Len(t) + 1) : j > Len(t) \/ t[j] \in Spaces})
    IN  IF t = <<>> THEN <<>>
        ELSE <<SubSeq(t, 1, e - 1)>> \o SplitWords(SubSeq(t, e, Len(t)))

\* str.strip(chars)
StripChars(s, chars) ==
    LET keep == {i \in DOMAIN s : s[i] \notin chars}
    IN  IF keep = {} THEN <<>>
        ELSE SubSeq(s, Min(keep), CHOOSE m \in keep : \A n \in keep : m >= n)

\* str.replace(old, new), old non-empty: left to right, without overlaps
RECURSIVE Replace(_, _, _)
Replace(s, old, new) ==
    IF Len(s) < Len(old) THEN s
    ELSE IF StartsAt(s, 1, old)
    THEN new \o Replace(SubSeq(s, Len(old) + 1, Len(s)), old, new)
    ELSE <<Head(s)>> \o Replace(Tail(s), old, new)

\* " ".join(parts)
RECURSIVE Join(_)
Join(parts) ==
    IF parts = <<>> THEN <<>>
    ELSE IF Len(parts) = 1 THEN parts[1]
    ELSE parts[1] \o <<" ">> \o Join(Tail(parts))

-----------------------------------------------------------------------------
(* filtering.py: the filter compiler *)

\* float(): the model's floats are fixed-point, counted in hundredths
Float(whole, hundredths) == whole * 100 + hundredths

\* int() of a run of digits
RECURSIVE DigitsValue(_)
DigitsValue(ds) ==
    IF ds = <<>> THEN 0
    ELSE DigitsValue(SubSeq(ds, 1, Len(ds) - 1)) * 10 + DigitVal(ds[Len(ds)])

\* the value of the fraction digits after a decimal point, in hundredths
\* (digits beyond the second are not represented)
FractionValue(ds) ==
    IF ds = <<>> THEN 0
    ELSE IF Len(ds) = 1 THEN DigitVal(ds[1]) * 10
    ELSE DigitVal(ds[1]) * 10 + DigitVal(ds[2])

NoMatch == [ok |-> FALSE]

\* re.search, given the pattern's match at every position of the text: the
\* match at the leftmost position where the pattern matches
Search(matches) ==
    LET hits == {i \in DOMAIN matches : matches[i].ok}
    IN  IF hits = {} THEN NoMatch ELSE matches[Min(hits)]

\* \b<word>\s+([a-z0-9\-\s']{3,}) at position i; the text has no whitespace
\* runs, so \s+ takes the one blank after the word
PhraseMatchAt(s, i, word) ==
    LET k == RunEnd(s, i + Len(word), Spaces)
        e == RunEnd(s, k, PhraseChars)
    IN  IF /\ WordBoundary(s, i)
           /\ StartsAt(s, i, word)
           /\ k > i + Len(word)
           /\ e - k >= 3
        THEN [ok |-> TRUE, phrase |-> SubSeq(s, k, e - 1)]
        ELSE NoMatch

FindOnly(s) ==
    Search([i \in DOMAIN s |-> PhraseMatchAt(s, i, <<"o", "n", "l", "y">>)])
FindExclude(s) ==
    Search([i \in DOMAIN s |-> PhraseMatchAt(s, i, <<"e", "x", "c", "l", "u", "d", "e">>)])
FindWithout(s) ==
    Search([i \in DOMAIN s |-> PhraseMatchAt(s, i, <<"w", "i", "t", "h", "o", "u", "t">>)])

\* the alternatives of (with|having|that|where|which|and|,|:)
Separators ==
    {<<"w", "i", "t", "h">>, <<"h", "a", "v", "i", "n", "g">>, <<"t", "h",
        "a", "t">>, <<"w", "h", "e", "r", "e">>, <<"w", "h", "i", "c", "h">>,
        <<"a", "n", "d">>, <<",">>, <<":">>}

\* re.split(r"(with|having|that|where|which|and|,|:)", phrase)[0]
BeforeSeparator(phrase) ==
    LET cuts == {i \in DOMAIN phrase :
                    \E sep \in Separators : StartsAt(phrase, i, sep)}
    IN  IF cuts = {} THEN phrase ELSE SubSeq(phrase, 1, Min(cuts) - 1)

stop_words ==
    {<<"p", "r", "o", "d", "u", "c", "t">>, <<"p", "r", "o", "d", "u", "c",
        "t", "s">>, <<"i", "t", "e", "m">>, <<"i", "t", "e", "m", "s">>,
        <<"c", "o", "l", "l", "e", "c", "t", "i", "o", "n">>,
     <<"c", "o", "l", "l", "e", "c", "t", "i", "o", "n", "s">>, <<"f", "o",
         "r">>, <<"t", "h", "e">>, <<"a">>, <<"a", "n">>, <<"o", "n", "l",
         "y">>, <<"j", "u", "s", "t">>,
     <<"s", "t", "r", "i", "c", "t", "l", "y">>, <<"c", "a", "t", "e", "g",
         "o", "r", "y">>, <<"c", "a", "t", "e", "g", "o", "r", "i", "e",
         "s">>, <<"t", "y", "p", "e">>, <<"t", "y", "p", "e", "s">>}

\* lines 65-66: the women/men variants of one token
NormalizeVariant(t) ==
    LET w == Replace(Replace(Replace(t, <<"w", "o", "m", "e", "n", "s">>,
        <<"w", "o", "m", "e", "n">>),
                             <<"w", "o", "m", "e", "n", "RSQUO", "s">>,
                                 <<"w", "o", "m", "e", "n">>), <<"w", "o",
                                 "m", "e", "n", "'", "s">>, <<"w", "o", "m",
                                 "e", "n">>)
    IN  Replace(Replace(Replace(w, <<"m", "e", "n", "s">>, <<"m", "e",
        "n">>), <<"m", "e", "n", "RSQUO", "s">>, <<"m", "e", "n">>),
                <<"m", "e", "n", "'", "s">>, <<"m", "e", "n">>)

_expand_only_phrase(phrase) ==
    LET words == SplitWords(_norm(phrase))
        stripped == [i \in DOMAIN words |->
                        StripChars(words[i], {" ", ",", ".", "'", "\""})]
        tokens == SelectSeq(stripped,
                            LAMBDA t : t # <<>> /\ t \notin stop_words)
    IN  [i \in DOMAIN tokens |-> NormalizeVariant(tokens[i])]

\* lines 97-107 and 116-124: the keywords one matched phrase contributes
keywords_of(m) ==
    LET phrase == Strip(BeforeSeparator(Strip(m.phrase)))
        tokens == _expand_only_phrase(phrase)
    IN  IF ~m.ok THEN <<>>
        ELSE IF tokens # <<>> THEN tokens
        ELSE IF phrase # <<>> THEN <<phrase>>
        ELSE <<>>

\* lines 96-107
include_keywords(p) == keywords_of(FindOnly(p))

\* lines 110-124: the loop over excl_patterns
exclude_keywords(p) ==
    keywords_of(FindExclude(p)) \o keywords_of(FindWithout(p))

\* the alternatives of (price|mrp|amount|cost|rating|score), in order
FieldWords == <<<<"p", "r", "i", "c", "e">>, <<"m", "r", "p">>, <<"a", "m",
    "o", "u", "n", "t">>, <<"c", "o", "s", "t">>, <<"r", "a", "t", "i", "n",
    "g">>, <<"s", "c", "o", "r", "e">>>>

\* the alternatives of (>=|<=|>|<|=), in order
Comparators == <<<<">", "=">>, <<"<", "=">>, <<">">>, <<"<">>, <<"=">>>>

AboveWords == <<<<"a", "b", "o", "v", "e">>, <<"o", "v", "e", "r">>, <<"g",
    "r", "e", "a", "t", "e", "r", " ", "t", "h", "a", "n">>>>
BelowWords == <<<<"b", "e", "l", "o", "w">>, <<"u", "n", "d", "e", "r">>,
    <<"l", "e", "s", "s", " ", "t", "h", "a", "n">>>>

\* the first alternative that the text holds at position i, or <<>>
AlternativeAt(s, i, alts) ==
    LET ns == {n \in DOMAIN alts : StartsAt(s, i, alts[n])}
    IN  IF ns = {} THEN <<>> ELSE alts[Min(ns)]

\* \d{least,} at position d, with (\.\d+)? after it when fraction is set
NumberAt(s, d, least, fraction) ==
    LET e == RunEnd(s, d, Digits)
        dot == /\ fraction
               /\ StartsAt(s, e, <<".">>)
               /\ e + 1 <= Len(s)
               /\ IsDigit(s[e + 1])
        fe == IF dot THEN RunEnd(s, e + 1, Digits) ELSE e
    IN  IF d > Len(s) \/ e - d < least THEN NoMatch
        ELSE [ok |-> TRUE,
              end |-> fe,
              int_end |-> e,
              value |-> Float(DigitsValue(SubSeq(s, d, e - 1)),
                              IF dot
                              THEN FractionValue(SubSeq(s, e + 1, fe - 1))
                              ELSE 0)]

\* (>=|<=|>|<|=)\s*<number> at position j: the first alternative after which
\* the number follows
ComparisonAt(s, j, least) ==
    LET ns == {n \in DOMAIN Comparators :
                 /\ StartsAt(s, j, Comparators[n])
                 /\ NumberAt(s, RunEnd(s, j + Len(Comparators[n]),
                     Spaces),
                             least, TRUE).ok}
        op == Comparators[Min(ns)]
    IN  IF ns = {} THEN NoMatch
        ELSE [ok |-> TRUE,
              op |-> op,
              value |-> NumberAt(s, RunEnd(s, j + Len(op), Spaces),
                                 least, TRUE).value]

\* line 133: \b(price|mrp|amount|cost|rating|score)\s*(>=|<=|>|<|=)\s*(\d+(\.\d+)?)
FieldComparisonAt(s, i) ==
    LET f == AlternativeAt(s, i, FieldWords)
        c == ComparisonAt(s, RunEnd(s, i + Len(f), Spaces), 1)
    IN  IF WordBoundary(s, i) /\ f # <<>> /\ c.ok
        THEN [ok |-> TRUE, field |-> f, op |-> c.op, value |-> c.value]
        ELSE NoMatch

FindFieldComparison(s) ==
    Search([i \in DOMAIN s |-> FieldComparisonAt(s, i)])

\* \b(<words>)\s+(\d{least,}) followed by \s*k\b (suffix set) or by \b
DirectionAt(s, i, words, least, suffix) ==
    LET w == AlternativeAt(s, i, words)
        k == RunEnd(s, i + Len(w), Spaces)
        n == NumberAt(s, k, least, FALSE)
        j == RunEnd(s, n.end, Spaces)
    IN  IF /\ WordBoundary(s, i)
           /\ w # <<>>
           /\ k > i + Len(w)
           /\ n.ok
           /\ IF suffix
              THEN StartsAt(s, j, <<"k">>) /\ WordBoundary(s, j + 1)
              ELSE WordBoundary(s, n.end)
        THEN [ok |-> TRUE, direction |-> w, value |-> n.value]
        ELSE NoMatch

\* lines 135-136
FindAboveThousands(s) ==
    Search([i \in DOMAIN s |-> DirectionAt(s, i, AboveWords, 1, TRUE)])
FindBelowThousands(s) ==
    Search([i \in DOMAIN s |-> DirectionAt(s, i, BelowWords, 1, TRUE)])

\* lines 138-139
FindAbove(s) ==
    Search([i \in DOMAIN s |-> DirectionAt(s, i, AboveWords, 3, FALSE)])
FindBelow(s) ==
    Search([i \in DOMAIN s |-> DirectionAt(s, i, BelowWords, 3, FALSE)])

\* line 141: (>=|<=|>|<|=)\s*(\d{3,}(\.\d+)?)
FindBareComparison(s) ==
    Search([i \in DOMAIN s |-> ComparisonAt(s, i, 3)])

\* numeric_patterns, searched in the normalized prompt
numeric_matches(p) ==
    <<FindFieldComparison(p), FindAboveThousands(p), FindBelowThousands(p),
      FindAbove(p), FindBelow(p), FindBareComparison(p)>>

NumericFilter(field_hint, op, value) ==
    [field_hint |-> field_hint, op |-> op, value |-> value]

\* lines 149-172: the filter the n-th pattern's match m yields
filter_of(n, m) ==
    IF n = 1 THEN NumericFilter(m.field, m.op, m.value)
    ELSE IF n = 6 THEN NumericFilter(<<"p", "r", "i", "c", "e">>, m.op,
        m.value)
    ELSE NumericFilter(<<"p", "r", "i", "c", "e">>,
                       IF m.direction \in {<<"a", "b", "o", "v", "e">>,
                           <<"o", "v", "e", "r">>, <<"g", "r", "e", "a", "t",
                           "e", "r", " ", "t", "h", "a", "n">>}
                       THEN <<">">> ELSE <<"<">>,
                       IF n \in {2, 3} THEN m.value * 1000 ELSE m.value)

\* mutant: the loop over numeric_patterns goes on after a match
numeric_filters_all_matches(p) ==
    LET ms == numeric_matches(p)
        hits == SelectSeq(<<1, 2, 3, 4, 5, 6>>, LAMBDA n : ms[n].ok)
    IN  [k \in DOMAIN hits |-> filter_of(hits[k], ms[hits[k]])]

\* lines 144-173: the loop over numeric_patterns
numeric_filters(p) ==
    LET ms == numeric_matches(p)
        hits == {n \in DOMAIN ms : ms[n].ok}
    IN  IF hits = {} THEN <<>> ELSE <<filter_of(Min(hits), ms[Min(hits)])>>

FilterSpec(inc, exc, num) ==
    [kind |-> "spec", include_keywords |-> inc, exclude_keywords |-> exc,
     numeric_filters |-> num]

parse_filters_from_prompt(prompt) ==
    LET p == _norm(prompt)
    IN  FilterSpec(include_keywords(p), exclude_keywords(p),
        numeric_filters(p))

-----------------------------------------------------------------------------
(* The filter compiler run: one call of parse_filters_from_prompt *)

MaxNumericWords == 3    \* words per prompt in the numeric family
MaxKeywordWords == 4    \* words per prompt in the keyword family

NumericWords ==
    {<<"p", "r", "i", "c", "e">>, <<"a", "b", "o", "v", "e">>, <<"b", "e",
        "l", "o", "w">>, <<">", "=">>, <<"1", "0", "0", "0", "0">>, <<"1",
        "0", "k">>, <<"4", ".", "5">>, <<"k">>,
     <<"5", "0">>}

KeywordWords ==
    {<<"o", "n", "l", "y">>, <<"e", "x", "c", "l", "u", "d", "e">>, <<"w",
        "i", "t", "h", "o", "u", "t">>, <<"h", "o", "o", "d", "i", "e",
        "s">>, <<"s", "a", "n", "d", "a", "l", "s">>, <<"p", "r", "o", "d",
        "u", "c", "t", "s">>,
     <<"a", "n", "d">>}

PromptExamples ==
    {<<"p", "r", "i", "c", "e", " ", "a", "b", "o", "v", "e", " ", "1", "0",
        "0", "0", "0">>, <<"r", "a", "t", "i", "n", "g", " ", ">", " ", "4",
        ".", "5">>, <<"g", "r", "e", "a", "t", "e", "r", " ", "t", "h", "a",
        "n", " ", "5", "0", "0">>,
     <<"l", "e", "s", "s", " ", "t", "h", "a", "n", " ", "5", " ", "k">>,
         <<"o", "v", "e", "r", " ", "9", "0", "0", "0">>, <<"u", "n", "d",
         "e", "r", " ", "3", "0", "0">>, <<"c", "o", "s", "t", "<", "=", "3",
         "0", "0">>,
     <<"m", "r", "p", " ", "=", " ", "1", "0", "0">>, <<"P", "r", "i", "c",
         "e", " ", "A", "B", "O", "V", "E", " ", "1", "0", "K">>, <<"a", "m",
         "o", "u", "n", "t", " ", ">", "=", " ", "1", "2", ".", "7", "5">>,
         <<"<", " ", "1", "0", "0", "0", "0", "k">>,
     <<"o", "n", "l", "y", " ", "h", "o", "o", "d", "i", "e", "s", " ", "a",
         "b", "o", "v", "e", " ", "1", "0", "0", "0", "0">>, <<"O", "n", "l",
         "y", " ", " ", "H", "o", "o", "d", "i", "e", "s", " ">>, <<"o", "n",
         "l", "y", " ", "w", "o", "m", "e", "n", "'", "s", " ", "p", "r",
         "o", "d", "u", "c", "t", "s">>,
     <<"o", "n", "l", "y", " ", "m", "e", "n", "s", " ", "s", "h", "o", "e",
         "s">>, <<"o", "n", "l", "y", " ", "t", "h", "e", " ", "p", "r", "o",
         "d", "u", "c", "t", "s">>, <<"o", "n", "l", "y", " ", "t", "v">>,
     <<"o", "n", "l", "y", " ", "r", "u", "n", "n", "i", "n", "g", " ", "s",
         "h", "o", "e", "s", " ", "w", "i", "t", "h", " ", "l", "a", "c",
         "e", "s">>, <<"o", "n", "l", "y", " ", "h", "o", "o", "d", "i", "e",
         "s", ",", " ", "r", "e", "d">>,
     <<"o", "n", "l", "y", " ", "w", "o", "m", "e", "n", "RSQUO", "s", " ",
         "s", "h", "o", "e", "s">>, <<"o", "n", "l", "y", " ", "'", "h", "o",
         "o", "d", "i", "e", "s", "'">>, <<"o", "n", "l", "y", " ", "b", "r",
         "a", "n", "d", " ", "n", "e", "w">>,
     <<"e", "x", "c", "l", "u", "d", "e", " ", "r", "e", "d", " ", "w", "i",
         "t", "h", "o", "u", "t", " ", "b", "l", "u", "e">>, <<"w", "i", "t",
         "h", "o", "u", "t", " ", "s", "u", "g", "a", "r">>,
     <<"s", "h", "o", "w", " ", "o", "n", "l", "y", " ", "h", "o", "o", "d",
         "i", "e", "s", " ", "a", "n", "d", " ", "e", "x", "c", "l", "u",
         "d", "e", " ", "r", "e", "d">>, <<"o", "n", "l", "y", " ", "a", " ",
         "o", "n", "l", "y", " ", "h", "o", "o", "d", "i", "e", "s">>}

PromptInputs ==
    {Join(ws) : ws \in SeqsUpTo(NumericWords, 0, MaxNumericWords)}
    \cup {Join(ws) : ws \in SeqsUpTo(KeywordWords, 0, MaxKeywordWords)}
    \cup PromptExamples

InitCompile ==
    /\ cprompt \in PromptInputs
    /\ cspec = NoResult
    /\ CoreIdle
    /\ ApplierIdle /\ NormalizerIdle /\ PipelineIdle /\ ScraperIdle

Compile ==
    /\ cspec = NoResult
    /\ cspec' = parse_filters_from_prompt(cprompt)
    /\ UNCHANGED <<cprompt, coreVars, aplVars, nrmVars, pipVars, scrVars>>

NextCompile == Compile

SpecCompile == InitCompile /\ [][NextCompile]_vars

-----------------------------------------------------------------------------
(* Claims about the filter compiler *)

Compiled == cspec # NoResult

\* C12: the compiler produces at most one numeric filter.  The six patterns
\* are tried in order and the first that matches anywhere in the prompt
\* yields the filter: (a) uses the matched field word and operator, (b)-(e)
\* use 'price' with '>' for above/over/greater than and '<' for
\* below/under/less than, the k forms multiply by 1000, (f) uses 'price' and
\* the matched operator; no match, no filter.  'price above 10000' compiles
\* to exactly the filter price > 10000.
C12_OneNumericFilterFromFirstPattern ==
    Compiled =>
        LET p == _norm(cprompt)
            nf == cspec.numeric_filters
            a == FindFieldComparison(p)
            b == FindAboveThousands(p)
            c == FindBelowThousands(p)
            d == FindAbove(p)
            e == FindBelow(p)
            f == FindBareComparison(p)
        IN  /\ Len(nf) <= 1
            /\ IF a.ok THEN nf = <<NumericFilter(a.field, a.op, a.value)>>
               ELSE IF b.ok
               THEN nf = <<NumericFilter(<<"p", "r", "i", "c", "e">>,
                   <<">">>, b.value * 1000)>>
               ELSE IF c.ok
               THEN nf = <<NumericFilter(<<"p", "r", "i", "c", "e">>,
                   <<"<">>, c.value * 1000)>>
               ELSE IF d.ok THEN nf = <<NumericFilter(<<"p", "r", "i", "c",
                   "e">>, <<">">>, d.value)>>
               ELSE IF e.ok THEN nf = <<NumericFilter(<<"p", "r", "i", "c",
                   "e">>, <<"<">>, e.value)>>
               ELSE IF f.ok THEN nf = <<NumericFilter(<<"p", "r", "i", "c",
                   "e">>, f.op, f.value)>>
               ELSE nf = <<>>
            /\ cprompt = <<"p", "r", "i", "c", "e", " ", "a", "b", "o", "v",
                "e", " ", "1", "0", "0", "0", "0">>
                  => nf = <<NumericFilter(<<"p", "r", "i", "c", "e">>,
                      <<">">>, Float(10000, 0))>>
            /\ cprompt = <<"o", "n", "l", "y", " ", "h", "o", "o", "d", "i",
                "e", "s">> => nf = <<>>

\* a prompt in which the first and the last pattern both match has compiled
\* to the one filter of the first
C12_Witness ==
    /\ Compiled
    /\ FindFieldComparison(_norm(cprompt)).ok
    /\ FindBareComparison(_norm(cprompt)).ok
    /\ cspec.numeric_filters =
          <<NumericFilter(<<"p", "r", "i", "c", "e">>, <<">", "=">>,
              Float(10000, 0))>>

\* the separator words and separator tokens of the phrase grammar
SeparatorTokens ==
    {<<"w", "i", "t", "h">>, <<"h", "a", "v", "i", "n", "g">>, <<"t", "h",
        "a", "t">>, <<"w", "h", "e", "r", "e">>, <<"w", "h", "i", "c", "h">>,
        <<"a", "n", "d">>, <<",">>, <<":">>}

\* the words of a phrase before its first separator word or separator token
WordsBeforeSeparator(words) ==
    LET cuts == {i \in DOMAIN words : words[i] \in SeparatorTokens}
    IN  IF cuts = {} THEN words ELSE SubSeq(words, 1, Min(cuts) - 1)

\* the keywords of a captured phrase when every word that is not itself a
\* separator is kept whole
WholeTokenKeywords(m) ==
    LET words == WordsBeforeSeparator(SplitWords(m.phrase))
        tokens == _expand_only_phrase(Join(words))
    IN  IF ~m.ok THEN <<>>
        ELSE IF tokens # <<>> THEN tokens
        ELSE IF words # <<>> THEN <<Join(words)>>
        ELSE <<>>

\* C13: for a prompt with 'only <phrase>' the include keywords are exactly
\* the whitespace-separated tokens of the captured phrase truncated at its
\* first separator word or token, punctuation stripped, stop-words dropped,
\* women/men variants normalized, a token that is not itself a separator
\* being kept whole; when every token is dropped the truncated phrase is the
\* single keyword; 'only hoodies' yields {hoodies} and no numeric filter; a
\* prompt without 'only' yields no include keyword.
C13_IncludeKeywordsAreWholeTokens ==
    Compiled =>
        /\ cspec.include_keywords =
              WholeTokenKeywords(FindOnly(_norm(cprompt)))
        /\ cprompt = <<"o", "n", "l", "y", " ", "h", "o", "o", "d", "i", "e",
            "s">>
              => /\ cspec.include_keywords = <<<<"h", "o", "o", "d", "i",
                  "e", "s">>>>
                 /\ cspec.numeric_filters = <<>>
        /\ ~Contains(_norm(cprompt), <<"o", "n", "l",
            "y">>) => cspec.include_keywords = <<>>

\* C14: within a category the first match wins: when the prompt holds both
\* 'exclude <phrase>' and 'without <phrase>' the exclude keywords come from
\* one of the two forms only, never from both, and at most one 'only' phrase
\* feeds the include keywords.
C14_ExcludeFromOneFormOnly ==
    Compiled =>
        LET p == _norm(cprompt)
            e == FindExclude(p)
            w == FindWithout(p)
        IN  /\ (e.ok /\ w.ok)
                  => cspec.exclude_keywords \in {keywords_of(e), keywords_of(w)}
            /\ cspec.include_keywords = keywords_of(FindOnly(p))

-----------------------------------------------------------------------------
(* filtering.py: the filter applier                                         *)
(*                                                                          *)
(* A row is the sequence of its [name, value] entries in insertion order;   *)
(* a number in a row is fixed-point like the compiler's values.             *)

Entry(name, value) == [name |-> name, value |-> value]

\* the digits of a natural number
RECURSIVE DigitsOf(_)
DigitsOf(n) ==
    LET d == <<"0", "1", "2", "3", "4", "5", "6", "7", "8",
        "9">>[(n % 10) + 1]
    IN  IF n < 10 THEN <<d>> ELSE DigitsOf(n \div 10) \o <<d>>

\* str(v) of a value other than None; a float prints its fraction without
\* trailing zeros and with one digit at least
StrOf(v) ==
    IF v.t = "str" THEN v.v
    ELSE IF v.t = "bool" THEN IF v.v THEN <<"T", "r", "u", "e">> ELSE <<"F",
        "a", "l", "s", "e">>
    ELSE LET a == IF v.v < 0 THEN -v.v ELSE v.v
             h == a % 100
         IN  (IF v.v < 0 THEN <<"-">> ELSE <<>>)
             \o DigitsOf(a \div 100) \o <<".">>
             \o (IF h % 10 = 0 THEN DigitsOf(h \div 10)
                 ELSE DigitsOf(h \div 10) \o DigitsOf(h % 10))

\* filtering.py _row_text
_row_text(row) ==
    LET present == SelectSeq(row, LAMBDA e : e.value # Null)
    IN  _norm(Join([i \in DOMAIN present |-> StrOf(present[i].value)]))

NoFloat == [ok |-> FALSE]
SomeFloat(x) == [ok |-> TRUE, value |-> x]

\* float(s) of a text made of digits, dots and minus signs
ParseFloat(s) ==
    LET neg == StartsAt(s, 1, <<"-">>)
        body == IF neg THEN Tail(s) ELSE s
        e == RunEnd(body, 1, Digits)
        whole == SubSeq(body, 1, e - 1)
        frac == SubSeq(body, e + 1, Len(body))
        x == Float(DigitsValue(whole),
                   IF e > Len(body) THEN 0 ELSE FractionValue(frac))
    IN  IF \/ e > Len(body) /\ whole = <<>>
           \/ e <= Len(body) /\ body[e] # "."
           \/ e <= Len(body) /\ \E i \in DOMAIN frac : frac[i] \notin Digits
           \/ e <= Len(body) /\ whole = <<>> /\ frac = <<>>
        THEN NoFloat
        ELSE SomeFloat(IF neg THEN -x ELSE x)

\* filtering.py _to_float
_to_float(x) ==
    IF x = Null THEN NoFloat
    ELSE IF x.t = "num" THEN SomeFloat(x.v)
    ELSE IF x.t = "bool" THEN SomeFloat(Float(B2N(x.v), 0))
    ELSE LET s == Strip(x.v)
             plain == SelectSeq(s, LAMBDA c : c \notin {"INR", "$", "EUR"})
             kept == SelectSeq(plain,
                               LAMBDA c : c \in Digits \cup {".", ",", "-"})
         IN  IF s = <<>> THEN NoFloat
             ELSE ParseFloat(SelectSeq(kept, LAMBDA c : c # ","))

\* lines 229-233
mapping(hint) ==
    IF hint = <<"p", "r", "i", "c", "e">> THEN <<<<"p", "r", "i", "c", "e">>,
        <<"m", "r", "p">>, <<"a", "m", "o", "u", "n", "t">>, <<"c", "o", "s",
        "t">>>>
    ELSE IF hint = <<"r", "a", "t", "i", "n", "g">> THEN <<<<"r", "a", "t",
        "i", "n", "g">>, <<"s", "c", "o", "r", "e">>>>
    ELSE <<hint>>

\* mutant: only keys containing the hint itself resolve a value
get_numeric_value_hint_only(row, field_hint) ==
    LET hint == _norm(field_hint)
        direct == {i \in DOMAIN row : Contains(_norm(row[i].name), hint)}
    IN  IF direct # {} THEN _to_float(row[Min(direct)].value) ELSE NoFloat

\* lines 220-241
get_numeric_value(row, field_hint) ==
    LET hint == _norm(field_hint)
        direct == {i \in DOMAIN row : Contains(_norm(row[i].name), hint)}
        candidates == mapping(hint)
        mapped == {i \in DOMAIN row :
                     \E c \in DOMAIN candidates :
                         Contains(_norm(row[i].name), candidates[c])}
    IN  IF direct # {} THEN _to_float(row[Min(direct)].value)
        ELSE IF mapped # {} THEN _to_float(row[Min(mapped)].value)
        ELSE NoFloat

\* lines 243-254
passes_numeric(val, op, target) ==
    IF op = <<">">> THEN val > target
    ELSE IF op = <<">", "=">> THEN val >= target
    ELSE IF op = <<"<">> THEN val < target
    ELSE IF op = <<"<", "=">> THEN val <= target
    ELSE IF op = <<"=">> THEN val = target
    ELSE TRUE

\* lines 184-185: the keywords of the spec, normalized, empty ones dropped
normalized_keywords(ks) ==
    LET given == SelectSeq(ks, LAMBDA k : k # <<>>)
    IN  [i \in DOMAIN given |-> _norm(given[i])]

\* mutant: one include keyword found in the row text is enough
include_stage_any_keyword(rows, inc) ==
    IF inc = <<>> THEN rows
    ELSE SelectSeq(rows, LAMBDA r :
            \E k \in DOMAIN inc :
                Contains(_row_text(r), inc[k]))

\* lines 192-204
include_stage(rows, inc) ==
    IF inc = <<>> THEN rows
    ELSE SelectSeq(rows, LAMBDA r :
            IF Len(inc) > 1
            THEN \A k \in DOMAIN inc :
                    Contains(_row_text(r), inc[k])
            ELSE \E k \in DOMAIN inc :
                    Contains(_row_text(r), inc[k]))

\* lines 209-215
exclude_stage(rows, exc) ==
    IF exc = <<>> THEN rows
    ELSE SelectSeq(rows, LAMBDA r :
            ~\E k \in DOMAIN exc :
                Contains(_row_text(r), exc[k]))

\* lines 256-272, one turn of the loop over numeric_filters; a compiled
\* filter always carries a value, so `target is None` does not arise
numeric_stage(rows, nf) ==
    SelectSeq(rows, LAMBDA r :
        LET v == get_numeric_value(r, nf.field_hint)
        IN  v.ok /\ passes_numeric(v.value, nf.op, nf.value))

\* lines 256-272, the loop over numeric_filters
RECURSIVE numeric_stages(_, _)
numeric_stages(rows, nfs) ==
    IF nfs = <<>> THEN rows
    ELSE numeric_stages(numeric_stage(rows, Head(nfs)), Tail(nfs))

\* apply_filter_spec; after_include and after_exclude record what the two
\* keyword stages handed on
apply_filter_spec(rows, spec) ==
    LET after_include ==
            include_stage(rows, normalized_keywords(spec.include_keywords))
        after_exclude ==
            exclude_stage(after_include,
                          normalized_keywords(spec.exclude_keywords))
    IN  [kind |-> "rows",
         rows |-> numeric_stages(after_exclude, spec.numeric_filters),
         after_include |-> after_include,
         after_exclude |-> after_exclude]

-----------------------------------------------------------------------------
(* The filter applier run: one call of apply_filter_spec *)

MaxRows == 2        \* rows handed to the applier

RowInputs ==
    {<<Entry(<<"n", "a", "m", "e">>, TextV(<<"x", "y">>)), Entry(<<"p", "r",
        "i", "c", "e">>, TextV(<<"INR", "1", "2", ",", "0", "0", "0">>))>>,
     <<Entry(<<"n", "a", "m", "e">>, TextV(<<"X", " ", " ", "y">>)),
         Entry(<<"p", "r", "i", "c", "e">>, TextV(<<"INR", "8", ",", "0",
         "0", "0">>))>>,
     <<Entry(<<"n", "a", "m", "e">>, TextV(<<"y">>)), Entry(<<"p", "r", "i",
         "c", "e">>, Null)>>,
     <<Entry(<<"n", "a", "m", "e">>, TextV(<<"y", "x">>)), Entry(<<"m", "r",
         "p">>, NumV(Float(9000, 0)))>>,
     <<Entry(<<"n", "a", "m", "e">>, TextV(<<"x">>)), Entry(<<"t", "a",
         "g">>, TextV(<<"y">>))>>,
     <<Entry(<<"n", "a", "m", "e">>, Null), Entry(<<"p", "r", "i", "c",
         "e">>, TextV(<<"n", "/", "a">>))>>,
     <<Entry(<<"n", "a", "m", "e">>, TextV(<<"x">>)), Entry(<<"S", "a", "l",
         "e", " ", "P", "r", "i", "c", "e">>, TextV(<<"s", "o", "o", "n">>)),
       Entry(<<"p", "r", "i", "c", "e">>, TextV(<<"1", "2", ",", "0", "0",
           "0">>))>>,
     <<Entry(<<"s", "c", "o", "r", "e">>, TextV(<<"4", ".", "5">>)),
         Entry(<<"n", "a", "m", "e">>, TextV(<<"y", " ", "x">>))>>,
     <<Entry(<<"i", "n", "_", "s", "t", "o", "c", "k">>, BoolV(TRUE)),
         Entry(<<"c", "o", "s", "t">>, TextV(<<"$", "1", "0", "0", "0",
         "0">>))>>,
     <<Entry(<<"r", "a", "t", "i", "n", "g">>, NumV(Float(4, 50))),
       Entry(<<"p", "r", "i", "c", "e">>, TextV(<<"EUR", "1", "0", ",", "0",
           "0", "0", ".", "5", "0", " ", "-">>))>>}

IncludeInputs == {<<>>, <<<<"x">>>>, <<<<"x", "y">>>>, <<<<"x">>, <<"y">>>>,
    <<<<"x", " ", "y">>>>}
ExcludeInputs == {<<>>, <<<<"y">>>>, <<<<"y", "x">>, <<"t", "r", "u", "e">>>>}
NumericInputs ==
    {<<>>,
     <<NumericFilter(<<"p", "r", "i", "c", "e">>, <<">">>, Float(10000, 0))>>,
     <<NumericFilter(<<"p", "r", "i", "c", "e">>, <<">", "=">>, Float(8000,
         0))>>,
     <<NumericFilter(<<"r", "a", "t", "i", "n", "g">>, <<"<">>, Float(5,
         0))>>,
     <<NumericFilter(<<"m", "r", "p">>, <<"=">>, Float(9000, 0))>>,
     <<NumericFilter(<<"p", "r", "i", "c", "e">>, <<">">>, Float(8000, 0)),
       NumericFilter(<<"p", "r", "i", "c", "e">>, <<"<", "=">>, Float(12000,
           0))>>}

\* the specs the compiler hands over: keywords normalized, every numeric
\* filter with a value
FilterSpecInputs ==
    {FilterSpec(inc, exc, num) :
        inc \in IncludeInputs, exc \in ExcludeInputs, num \in NumericInputs}

InitApply ==
    /\ arows \in SeqsUpTo(RowInputs, 0, MaxRows)
    /\ aspec \in FilterSpecInputs
    /\ aout = NoResult
    /\ CoreIdle
    /\ CompilerIdle /\ NormalizerIdle /\ PipelineIdle /\ ScraperIdle

Apply ==
    /\ aspec # NoResult
    /\ aout = NoResult
    /\ aout' = apply_filter_spec(arows, aspec)
    /\ UNCHANGED <<arows, aspec, coreVars, cmpVars, nrmVars, pipVars,
        scrVars>>

NextApply == Apply

SpecApply == InitApply /\ [][NextApply]_vars

-----------------------------------------------------------------------------
(* Claims about the filter applier *)

Applied == aout # NoResult

\* the non-null values of a row, as text, in row order
ValueTexts(row) ==
    LET present == SelectSeq(row, LAMBDA e : e.value # Null)
    IN  [i \in DOMAIN present |-> StrOf(present[i].value)]

RECURSIVE Concat(_)
Concat(parts) == IF parts = <<>> THEN <<>> ELSE Head(parts) \o Concat(Tail(parts))

\* the row text as the bare concatenation of the values
ConcatenatedText(row) == CollapseSpaces(Lower(Strip(Concat(ValueTexts(row)))))

\* the row text with one blank between neighbouring values
JoinedText(row) == CollapseSpaces(Lower(Strip(Join(ValueTexts(row)))))

AllIn(ks, text) == \A k \in DOMAIN ks : Contains(text, ks[k])
NoneIn(ks, text) == \A k \in DOMAIN ks : ~Contains(text, ks[k])

Compare(val, op, target) ==
    CASE op = <<">">> -> val > target
      [] op = <<">", "=">> -> val >= target
      [] op = <<"<">> -> val < target
      [] op = <<"<", "=">> -> val <= target
      [] op = <<"=">> -> val = target

SynonymGroup(hint) ==
    IF hint = <<"p", "r", "i", "c", "e">> THEN {<<"p", "r", "i", "c", "e">>,
        <<"m", "r", "p">>, <<"a", "m", "o", "u", "n", "t">>, <<"c", "o", "s",
        "t">>}
    ELSE IF hint = <<"r", "a", "t", "i", "n", "g">> THEN {<<"r", "a", "t",
        "i", "n", "g">>, <<"s", "c", "o", "r", "e">>}
    ELSE {hint}

\* the entry a numeric filter compares: the first whose key contains the
\* hint, ignoring case, else the first whose key contains a member of the
\* hint's synonym group; 0 when no key resolves
ResolvedEntry(row, hint) ==
    LET byHint == {i \in DOMAIN row : Contains(Lower(row[i].name),
        Lower(hint))}
        byGroup == {i \in DOMAIN row :
                      \E w \in SynonymGroup(Lower(hint)) :
                          Contains(Lower(row[i].name), w)}
    IN  IF byHint # {} THEN Min(byHint)
        ELSE IF byGroup # {} THEN Min(byGroup)
        ELSE 0

\* a row survives a numeric filter iff a value resolves, parses and compares
Survives(row, nf) ==
    LET i == ResolvedEntry(row, nf.field_hint)
    IN  /\ i # 0
        /\ _to_float(row[i].value).ok
        /\ Compare(_to_float(row[i].value).value, nf.op, nf.value)

SurvivesAll(row, nfs) == \A n \in DOMAIN nfs : Survives(row, nfs[n])

\* C15 as written: a row is kept by the keyword stages iff every include
\* keyword is a substring of its row text and no exclude keyword is, the row
\* text being the concatenation of the row's non-null values, lower-cased
\* and whitespace-collapsed; the stages run include, exclude, numeric, each
\* on what the previous one kept.
C15_KeywordStagesOnConcatenatedText ==
    Applied =>
        /\ aout.after_exclude =
              SelectSeq(arows, LAMBDA r :
                  /\ AllIn(aspec.include_keywords, ConcatenatedText(r))
                  /\ NoneIn(aspec.exclude_keywords, ConcatenatedText(r)))
        /\ aout.rows =
              SelectSeq(aout.after_exclude,
                        LAMBDA r : SurvivesAll(r, aspec.numeric_filters))

\* C15, amended: the same with the row text being the non-null values
\* joined by single blanks, lower-cased and whitespace-collapsed: the include
\* stage keeps the rows holding every include keyword, the exclude stage then
\* drops of those the rows holding some exclude keyword, the numeric filters
\* then narrow what is left, in order.
C15_KeywordStagesOnJoinedText ==
    Applied =>
        /\ aout.after_include =
              SelectSeq(arows, LAMBDA r :
                  AllIn(aspec.include_keywords, JoinedText(r)))
        /\ aout.after_exclude =
              SelectSeq(aout.after_include, LAMBDA r :
                  NoneIn(aspec.exclude_keywords, JoinedText(r)))
        /\ aout.after_exclude =
              SelectSeq(arows, LAMBDA r :
                  /\ AllIn(aspec.include_keywords, JoinedText(r))
                  /\ NoneIn(aspec.exclude_keywords, JoinedText(r)))
        /\ aout.rows =
              SelectSeq(aout.after_exclude,
                        LAMBDA r : SurvivesAll(r, aspec.numeric_filters))

\* two include keywords and an exclude keyword have each dropped a row
C15_Witness ==
    /\ Applied
    /\ Len(aspec.include_keywords) = 2
    /\ aspec.exclude_keywords # <<>>
    /\ Len(arows) = 2
    /\ Len(aout.after_include) = 1
    /\ aout.after_exclude = <<>>

\* C16: the numeric filters narrow the row set one after the other: a row
\* survives a filter iff a comparison value resolves for it (from the first
\* key containing the hint, ignoring case, else from the first key
\* containing a member of the hint's synonym group, price -> price, mrp,
\* amount, cost and rating -> rating, score, else the hint alone), the value
\* parses to a number once currency symbols, other non-numeric characters
\* and thousands commas are stripped, and value <op> target holds; a row
\* with no resolving key or an unparsable value is dropped.  Rows priced
\* 12,000 and 8,000 under price > 10000 leave the first only.
C16_NumericFiltersNarrow ==
    Applied =>
        /\ aout.rows =
              SelectSeq(aout.after_exclude,
                        LAMBDA r : \A n \in DOMAIN aspec.numeric_filters :
                            Survives(r, aspec.numeric_filters[n]))
        /\ \A k \in DOMAIN aout.after_exclude :
              \A n \in DOMAIN aspec.numeric_filters :
                  LET r == aout.after_exclude[k]
                      nf == aspec.numeric_filters[n]
                  IN  (\/ ResolvedEntry(r, nf.field_hint) = 0
                       \/ ~_to_float(r[ResolvedEntry(r,
                           nf.field_hint)].value).ok)
                          => \A j \in DOMAIN aout.rows : aout.rows[j] # r
        /\ (/\ Len(arows) = 2
            /\ arows[1][2] = Entry(<<"p", "r", "i", "c", "e">>,
                TextV(<<"INR", "1", "2", ",", "0", "0", "0">>))
            /\ arows[2][2] = Entry(<<"p", "r", "i", "c", "e">>,
                TextV(<<"INR", "8", ",", "0", "0", "0">>))
            /\ aspec = FilterSpec(<<>>, <<>>,
                          <<NumericFilter(<<"p", "r", "i", "c", "e">>,
                              <<">">>, Float(10000, 0))>>))
              => aout.rows = <<arows[1]>>

\* under two price filters one row has survived through a synonym key and
\* another, whose first price key holds no number, was dropped
C16_Witness ==
    /\ Applied
    /\ Len(aspec.numeric_filters) = 2
    /\ Len(arows) = 2
    /\ arows[1][2] = Entry(<<"S", "a", "l", "e", " ", "P", "r", "i", "c",
        "e">>, TextV(<<"s", "o", "o", "n">>))
    /\ arows[2][2] = Entry(<<"c", "o", "s", "t">>, TextV(<<"$", "1", "0",
        "0", "0", "0">>))
    /\ aout.after_exclude = arows
    /\ aout.rows = <<arows[2]>>

-----------------------------------------------------------------------------
(* postprocess.py: the row normalizer                                       *)
(*                                                                          *)
(* The DataFrame is its column names and its rows of cells.  A cell is a    *)
(* row value, or NaN: what pandas puts where a row lacks the column, and    *)
(* where None stands in a column whose other values are all floats.         *)

NaN == [t |-> "nan", v |-> <<>>]

IsMissing(x) == x = Null \/ x = NaN

\* str(x) of a cell other than None
CellText(x) == IF x = NaN THEN <<"n", "a", "n">> ELSE StrOf(x)

\* postprocess.py _clean_text
_clean_text(x) ==
    LET s == CollapseSpaces(Strip(CellText(x)))
    IN  IF x = Null THEN Null
        ELSE IF s = <<>> THEN Null
        ELSE IF Lower(s) \in {<<"n", "o", "n", "e">>, <<"n", "u", "l", "l">>,
            <<"n", "a">>, <<"n", "/", "a">>, <<"-">>} THEN Null
        ELSE TextV(s)

\* postprocess.py _clean_number
_clean_number(x) ==
    IF x = Null THEN Null
    ELSE IF x = NaN \/ x.t = "num" THEN x
    ELSE IF x.t = "bool" THEN NumV(Float(B2N(x.v), 0))
    ELSE LET s == Strip(x.v)
             plain == SelectSeq(s, LAMBDA c : c \notin {"INR", "$", "EUR"})
             kept == SelectSeq(plain,
                               LAMBDA c : c \in Digits \cup {".", ",", "-"})
             digits == SelectSeq(kept, LAMBDA c : c # ",")
         IN  IF s = <<>> THEN Null
             ELSE IF digits \in {<<>>, <<"-">>, <<".">>, <<"-",
                 ".">>} THEN Null
             ELSE IF ParseFloat(digits).ok THEN NumV(ParseFloat(digits).value)
             ELSE Null

\* line 74: the column name hints at a number
is_number_column(col) ==
    \E k \in {<<"p", "r", "i", "c", "e">>, <<"a", "m", "o", "u", "n", "t">>,
        <<"m", "r", "p">>, <<"r", "a", "t", "i", "n", "g">>, <<"s", "c", "o",
        "r", "e">>, <<"c", "o", "u", "n", "t">>} :
        Contains(Lower(col), k)

\* the keys of the rows in first-seen order: DataFrame(rows).columns
RECURSIVE columns_of(_, _)
columns_of(names, seen) ==
    IF names = <<>> THEN seen
    ELSE columns_of(Tail(names),
                    IF \E i \in DOMAIN seen : seen[i] = Head(names)
                    THEN seen ELSE Append(seen, Head(names)))

\* row.get(col), NaN where the row lacks the column
cell_of(row, col) ==
    LET at == {i \in DOMAIN row : row[i].name = col}
    IN  IF at = {} THEN NaN ELSE row[Min(at)].value

\* the dtype pandas infers for a column: with floats (NaN among them) as the
\* only values besides None the column is float64 and its None are NaN
infer_column(cells) ==
    IF /\ \E i \in DOMAIN cells : cells[i] = NaN \/ cells[i].t = "num"
       /\ \A i \in DOMAIN cells :
             cells[i] = Null \/ cells[i] = NaN \/ cells[i].t = "num"
    THEN [i \in DOMAIN cells |-> IF cells[i] = Null THEN NaN ELSE cells[i]]
    ELSE cells

\* lines 68-76: df[col].apply(...) of one column
clean_column(col, cells) ==
    LET given == infer_column(cells)
    IN  infer_column([i \in DOMAIN given |->
                        IF is_number_column(col)
                        THEN _clean_number(given[i])
                        ELSE _clean_text(given[i])])

\* mutant: the last of equal rows stays
drop_duplicates_keep_last(rows) ==
    LET last == SelectSeq([i \in DOMAIN rows |-> i], LAMBDA i :
                    \A j \in (i + 1)..Len(rows) : rows[j] # rows[i])
    IN  [k \in DOMAIN last |-> rows[last[k]]]

\* df.drop_duplicates(): the first of equal rows stays
drop_duplicates(rows) ==
    LET first == SelectSeq([i \in DOMAIN rows |-> i], LAMBDA i :
                     \A j \in 1..(i - 1) : rows[j] # rows[i])
    IN  [k \in DOMAIN first |-> rows[first[k]]]

\* df.dropna(how="all")
dropna(rows) ==
    SelectSeq(rows, LAMBDA row : \E c \in DOMAIN row : ~IsMissing(row[c]))

\* PostprocessResult; coerced and entering record the table after the
\* coercion and after dropna
Table(columns, rows, removed, coerced, entering) ==
    [kind |-> "table", columns |-> columns, rows |-> rows,
     removed_duplicates |-> removed, coerced |-> coerced,
     entering |-> entering]

postprocess_rows(rows) ==
    LET columns ==
            columns_of(Concat([r \in DOMAIN rows |->
                          [i \in DOMAIN rows[r] |-> rows[r][i].name]]), <<>>)
        cleaned ==
            [c \in DOMAIN columns |->
                clean_column(columns[c],
                             [r \in DOMAIN rows |-> cell_of(rows[r],
                                 columns[c])])]
        coerced ==
            [r \in DOMAIN rows |-> [c \in DOMAIN columns |-> cleaned[c][r]]]
        entering == dropna(coerced)
        kept == drop_duplicates(entering)
    IN  IF rows = <<>> THEN Table(<<>>, <<>>, 0, <<>>, <<>>)
        ELSE Table(columns, kept, Len(entering) - Len(kept), coerced,
            entering)

-----------------------------------------------------------------------------
(* The normalizer run: one call of postprocess_rows *)

MaxTableRows == 3   \* rows handed to the normalizer

NormalizerRowInputs ==
    {<<Entry(<<"n", "a", "m", "e">>, TextV(<<"X">>)), Entry(<<"p", "r", "i",
        "c", "e">>, TextV(<<"1", "2", "9", "9">>))>>,
     <<Entry(<<"n", "a", "m", "e">>, TextV(<<" ", "x", " ", " ", "y",
         " ">>)), Entry(<<"p", "r", "i", "c", "e">>, TextV(<<"INR", "1", ",",
         "2", "9", "9">>))>>,
     <<Entry(<<"n", "a", "m", "e">>, TextV(<<"x", " ", "y">>)), Entry(<<"p",
         "r", "i", "c", "e">>, NumV(Float(1299, 0)))>>,
     <<Entry(<<"n", "a", "m", "e">>, TextV(<<"N", "/", "A">>)), Entry(<<"p",
         "r", "i", "c", "e">>, TextV(<<"-">>))>>,
     <<Entry(<<"n", "a", "m", "e">>, TextV(<<"X">>)), Entry(<<"p", "r", "i",
         "c", "e">>, TextV(<<"s", "o", "o", "n">>))>>,
     <<Entry(<<"n", "a", "m", "e">>, TextV(<<"X">>)), Entry(<<"q", "t",
         "y">>, NumV(Float(5, 0)))>>,
     <<Entry(<<"n", "a", "m", "e">>, TextV(<<"X">>)), Entry(<<"q", "t",
         "y">>, Null)>>,
     <<Entry(<<"n", "a", "m", "e">>, Null), Entry(<<"q", "t", "y">>, Null)>>,
     <<Entry(<<"n", "a", "m", "e">>, TextV(<<"n", "/", "a">>))>>,
     <<Entry(<<"i", "n", "_", "s", "t", "o", "c", "k">>, BoolV(TRUE)),
         Entry(<<"n", "a", "m", "e">>, TextV(<<"X">>))>>}

InitNormalize ==
    /\ nrows \in SeqsUpTo(NormalizerRowInputs, 0, MaxTableRows)
    /\ nout = NoResult
    /\ CoreIdle
    /\ CompilerIdle /\ ApplierIdle /\ PipelineIdle /\ ScraperIdle

Normalize ==
    /\ nout = NoResult
    /\ nout' = postprocess_rows(nrows)
    /\ UNCHANGED <<nrows, coreVars, cmpVars, aplVars, pipVars, scrVars>>

NextNormalize == Normalize

SpecNormalize == InitNormalize /\ [][NextNormalize]_vars

-----------------------------------------------------------------------------
(* Claims about the row normalizer *)

Normalized == nout # NoResult

AllNull(row) == \A c \in DOMAIN row : IsMissing(row[c])

\* the rows of a table as the records handed to the normalizer
rows_of(table) ==
    [r \in DOMAIN table.rows |->
        [c \in DOMAIN table.columns |->
            Entry(table.columns[c], table.rows[r][c])]]

\* where a row first stands among the rows entering deduplication
FirstAt(row) == Min({i \in DOMAIN nout.entering : nout.entering[i] = row})

\* the rule of the normalizer: all-null rows go after the coercion, then of
\* equal rows the first stays, the order stays, and the count is the number
\* of rows entering deduplication minus the number surviving it
DeduplicatesAfterDropping ==
    /\ nout.entering = SelectSeq(nout.coerced, LAMBDA row : ~AllNull(row))
    /\ \A i \in DOMAIN nout.entering :
          \E k \in DOMAIN nout.rows : nout.rows[k] = nout.entering[i]
    /\ \A k \in DOMAIN nout.rows :
          \E i \in DOMAIN nout.entering : nout.entering[i] = nout.rows[k]
    /\ \A k, l \in DOMAIN nout.rows :
          k < l => FirstAt(nout.rows[k]) < FirstAt(nout.rows[l])
    /\ nout.removed_duplicates = Len(nout.entering) - Len(nout.rows)
    /\ \A k \in DOMAIN nout.rows : ~AllNull(nout.rows[k])
    /\ \A k, l \in DOMAIN nout.rows : k # l => nout.rows[k] # nout.rows[l]
    /\ nrows = <<>>
          => /\ nout.rows = <<>>
             /\ nout.columns = <<>>
             /\ nout.removed_duplicates = 0

TwoIdenticalRows == Len(nrows) = 2 /\ nrows[1] = nrows[2]

\* C17 as written: the normalizer deduplicates after coercion and after
\* dropping all-null rows; rows are duplicates iff all their column values
\* are equal, the first occurrence is kept, order is preserved, the count
\* is rows entering deduplication minus rows surviving it; the output holds
\* no all-null row and no two equal rows; two identical input rows give one
\* surviving row and a count of 1; empty input gives an empty table and 0.
C17_TwoIdenticalRowsLeaveOne ==
    Normalized =>
        /\ DeduplicatesAfterDropping
        /\ TwoIdenticalRows
              => Len(nout.rows) = 1 /\ nout.removed_duplicates = 1

\* C17, amended: the same, the two identical input rows being rows with a
\* value left after the coercion; two identical rows whose every value is
\* coerced to null leave no row and a count of 0.
C17_TwoIdenticalFilledRowsLeaveOne ==
    Normalized =>
        /\ DeduplicatesAfterDropping
        /\ (TwoIdenticalRows /\ ~AllNull(nout.coerced[1]))
              => Len(nout.rows) = 1 /\ nout.removed_duplicates = 1
        /\ (TwoIdenticalRows /\ AllNull(nout.coerced[1]))
              => nout.rows = <<>> /\ nout.removed_duplicates = 0

\* of three rows the first and the third were equal after the coercion and
\* the second all-null: one row is left, one duplicate counted
C17_Witness ==
    /\ Normalized
    /\ Len(nrows) = 3
    /\ nrows[1] # nrows[3]
    /\ AllNull(nout.coerced[2])
    /\ Len(nout.entering) = 2
    /\ nout.rows = <<nout.coerced[1]>>
    /\ nout.removed_duplicates = 1

\* C18: normalizing the rows of the normalizer's own output yields the same
\* table (same columns, same rows in the same order with the same values)
\* and removes no duplicate.
C18_NormalizeIsIdempotent ==
    Normalized =>
        LET again == postprocess_rows(rows_of(nout))
        IN  /\ again.columns = nout.columns
            /\ again.rows = nout.rows
            /\ again.removed_duplicates = 0

\* ---------------------------------------------------------------------
\* app.py: the pipeline run
\* ---------------------------------------------------------------------

MaxPipelineRows == 2    \* rows the extraction of a pipeline run may yield

\* one call to a stage function and how it ended: it raised, or it returned
\* a result of `size` rows (1 for the stages whose result is not a row set)
Invocation(fn, kind, size) == [fn |-> fn, kind |-> kind, size |-> size]

\* one thing rendered on the page; "..." stands for the ellipsis of the labels
Shown(widget, text) == [widget |-> widget, text |-> text]

\* cached_x(...) if use_cache else x(...)
Call(cached, plain) == IF session.use_cache THEN cached ELSE plain

render_error(msg) ==
    <<Shown("error", msg),
      IF session.debug_mode
      THEN Shown("exception", msg)
      ELSE Shown("caption",
             "Tip: Enable Debug mode in the sidebar to see full error details.")>>

\* the page after the status block: plan expander, download button, preview
Output ==
    (IF session.debug_mode
     THEN <<Shown("expander", "DEBUG: Extraction plan JSON")>>
     ELSE <<>>)
    \o <<Shown("download_button", "Download CSV"),
         Shown("caption", "first 10 rows"),
         Shown("dataframe", "post.df.head(10)")>>

\* the three warnings of an empty result
NoRowsExtracted ==
    "No rows extracted. Try changing the prompt or URL."
AllRowsFilteredOut ==
    "All rows were filtered out. Try relaxing the prompt."
EmptyDataset ==
    "Postprocessing produced an empty dataset."

\* mutant: the run goes on to the filter whatever the extraction yielded
after_extract_unchecked(rows) == "filter"

\* if not ext_res.rows: ... st.stop()
after_extract(rows) == IF rows = 0 THEN "stopped" ELSE "filter"

\* if not filtered_rows: ... st.stop()
after_filter(rows) == IF rows = 0 THEN "stopped" ELSE "postprocess"

\* if post.df.empty: ... st.stop()
after_postprocess(rows) == IF rows = 0 THEN "stopped" ELSE "done"

InitPipeline ==
    /\ session \in [url : {<<>>, <<" ">>, <<"u">>},
                    prompt : {<<>>, <<" ">>, <<"p">>},
                    api_key : BOOLEAN,
                    debug_mode : BOOLEAN,
                    use_cache : BOOLEAN]
    /\ stage = "idle"
    /\ invoked = <<>>
    /\ shown = <<>>
    /\ CoreIdle /\ CompilerIdle /\ ApplierIdle /\ NormalizerIdle /\ ScraperIdle

pipRest == <<coreVars, cmpVars, aplVars, nrmVars, scrVars>>

\* if run: the three checks before the status block
Click ==
    /\ stage = "idle"
    /\ IF Strip(session.url) = <<>>
       THEN /\ shown' = shown \o <<Shown("error", "Please enter a URL.")>>
            /\ stage' = "stopped"
       ELSE IF Strip(session.prompt) = <<>>
       THEN /\ shown' = shown \o
                  <<Shown("error", "Please enter an extraction prompt.")>>
            /\ stage' = "stopped"
       ELSE IF ~session.api_key
       THEN /\ shown' = shown \o
                  <<Shown("error",
                          "OPENAI_API_KEY not found. Add it to your .env file.")>>
            /\ stage' = "stopped"
       ELSE /\ shown' = shown
            /\ stage' = "scrape"
    /\ UNCHANGED <<session, invoked, pipRest>>

\* Stage 2: Scrape
Scrape ==
    /\ stage = "scrape"
    /\ \E kind \in {"raised", "returned"} :
          /\ invoked' = Append(invoked,
                 Invocation(Call("cached_scrape", "scrape_html"), kind, 1))
          /\ IF kind = "raised"
             THEN /\ shown' = shown
                       \o <<Shown("status running", "Scraping...")>>
                       \o <<Shown("status error", "Scraping failed")>>
                       \o render_error("Scrape failed.")
                  /\ stage' = "stopped"
             ELSE /\ shown' = shown
                       \o <<Shown("status running", "Scraping...")>>
                       \o <<Shown("success", "Scrape successful."),
                            Shown("write", "scrape_res")>>
                  /\ stage' = "clean"
    /\ UNCHANGED <<session, pipRest>>

\* Stage 3: Clean
Clean ==
    /\ stage = "clean"
    /\ \E kind \in {"raised", "returned"} :
          /\ invoked' = Append(invoked,
                 Invocation(Call("cached_clean", "clean_html"), kind, 1))
          /\ IF kind = "raised"
             THEN /\ shown' = shown
                       \o <<Shown("status running", "Cleaning HTML...")>>
                       \o <<Shown("status error", "Cleaning failed")>>
                       \o render_error("Cleaner failed.")
                  /\ stage' = "stopped"
             ELSE /\ shown' = shown
                       \o <<Shown("status running", "Cleaning HTML...")>>
                       \o <<Shown("success", "HTML cleaned."),
                            Shown("write", "clean_res")>>
                  /\ stage' = "plan"
    /\ UNCHANGED <<session, pipRest>>

\* Stage 4: Plan
PlanStage ==
    /\ stage = "plan"
    /\ \E kind \in {"raised", "returned"} :
          /\ invoked' = Append(invoked,
                 Invocation(Call("cached_plan", "generate_extraction_plan"),
                            kind, 1))
          /\ IF kind = "raised"
             THEN /\ shown' = shown
                       \o <<Shown("status running",
                                  "Planning extraction (OpenAI)...")>>
                       \o <<Shown("status error", "Planning failed")>>
                       \o render_error("Planner failed.")
                  /\ stage' = "stopped"
             ELSE /\ shown' = shown
                       \o <<Shown("status running",
                                  "Planning extraction (OpenAI)...")>>
                       \o <<Shown("success", "Plan generated.")>>
                  /\ stage' = "extract"
    /\ UNCHANGED <<session, pipRest>>

\* Stage 5: Extract, and the stop on no rows
ExtractStage ==
    /\ stage = "extract"
    /\ \E kind \in {"raised", "returned"}, rows \in 0..MaxPipelineRows :
          /\ kind = "raised" => rows = 0
          /\ invoked' = Append(invoked,
                 Invocation(Call("cached_extract", "extract_rows_from_plan"),
                            kind, rows))
          /\ IF kind = "raised"
             THEN /\ shown' = shown
                       \o <<Shown("status running", "Extracting...")>>
                       \o <<Shown("status error", "Extraction failed")>>
                       \o render_error("Extractor failed.")
                  /\ stage' = "stopped"
             ELSE /\ shown' = shown
                       \o <<Shown("status running", "Extracting...")>>
                       \o <<Shown("success", "Extraction done.")>>
                       \o (IF after_extract(rows) = "stopped"
                           THEN <<Shown("status error", "No rows extracted"),
                                  Shown("warning", NoRowsExtracted)>>
                           ELSE <<>>)
                  /\ stage' = after_extract(rows)
    /\ UNCHANGED <<session, pipRest>>

\* Stage 7: Local Filtering, called outside any try: filter_rows compiles the
\* prompt and applies the filters, which only ever narrows the rows
FilterStage ==
    /\ stage = "filter"
    /\ LET before == invoked[Len(invoked)].size
       IN  \E rows \in 0..before, applied \in BOOLEAN :
              /\ ~applied => rows = before
              /\ invoked' = Append(invoked,
                                   Invocation("filter_rows", "returned",
                                       rows))
              /\ shown' = shown
                    \o <<Shown("status running", "Filtering...")>>
                    \o <<Shown("info", IF applied
                                       THEN "Filters applied"
                                       ELSE "No filters detected in prompt.")>>
                    \o (IF after_filter(rows) = "stopped"
                        THEN <<Shown("status error",
                            "No rows after filtering"),
                               Shown("warning", AllRowsFilteredOut)>>
                        ELSE <<>>)
              /\ stage' = after_filter(rows)
    /\ UNCHANGED <<session, pipRest>>

\* Stage 6: Postprocess, the stop on an empty table, and the output after it
Postprocess ==
    /\ stage = "postprocess"
    /\ LET before == invoked[Len(invoked)].size
       IN  \E kind \in {"raised", "returned"}, rows \in 0..before :
              /\ kind = "raised" => rows = 0
              /\ invoked' = Append(invoked,
                     Invocation(Call("cached_postprocess",
                         "postprocess_rows"),
                                kind, rows))
              /\ IF kind = "raised"
                 THEN /\ shown' = shown
                           \o <<Shown("status running", "Postprocessing...")>>
                           \o <<Shown("status error",
                               "Postprocessing failed")>>
                           \o render_error("Postprocess failed.")
                      /\ stage' = "stopped"
                 ELSE /\ shown' = shown
                           \o <<Shown("status running", "Postprocessing...")>>
                           \o (IF after_postprocess(rows) = "stopped"
                               THEN <<Shown("status error",
                                            "Empty dataset after postprocess"),
                                      Shown("warning", EmptyDataset)>>
                               ELSE <<Shown("status complete", "Done")>>
                                    \o Output)
                      /\ stage' = after_postprocess(rows)
    /\ UNCHANGED <<session, pipRest>>

NextPipeline ==
    \/ Click
    \/ Scrape
    \/ Clean
    \/ PlanStage
    \/ ExtractStage
    \/ FilterStage
    \/ Postprocess

SpecPipeline == InitPipeline /\ [][NextPipeline]_vars

\* ---------------------------------------------------------------------
\* Claims about the pipeline run
\* ---------------------------------------------------------------------

\* the stage functions in the order of the run block, cached or not
StageFunctions ==
    <<{"cached_scrape", "scrape_html"},
      {"cached_clean", "clean_html"},
      {"cached_plan", "generate_extraction_plan"},
      {"cached_extract", "extract_rows_from_plan"},
      {"filter_rows"},
      {"cached_postprocess", "postprocess_rows"}>>

\* the call returned, and what it returned is not empty
Completed(call) == call.kind = "returned" /\ call.size > 0

Widgets == {shown[i].widget : i \in DOMAIN shown}

Terminal == stage \in {"stopped", "done"}

\* C19: in every pipeline run the stages are invoked strictly in the order
\* (scrape, clean,) plan, extract, filter, normalize; a stage is invoked only
\* after every earlier one returned a non-empty result; when a stage raises
\* the run stops with an error, when extraction, filtering or normalization
\* returns nothing it stops with a warning and no exception; nothing is
\* invoked after a stop; the download is offered only after normalization
\* returned a non-empty table.
C19_StagesInOrderAndStopOnEmpty ==
    /\ \A i \in DOMAIN invoked : invoked[i].fn \in StageFunctions[i]
    /\ \A i \in DOMAIN invoked : i < Len(invoked) => Completed(invoked[i])
    /\ invoked # <<>> =>
          LET last == invoked[Len(invoked)]
          IN  /\ last.kind = "raised" =>
                    /\ stage = "stopped"
                    /\ "error" \in Widgets
                    /\ "warning" \notin Widgets
              /\ (last.kind = "returned" /\ last.size = 0) =>
                    /\ stage = "stopped"
                    /\ "warning" \in Widgets
                    /\ "error" \notin Widgets
                    /\ "exception" \notin Widgets
              /\ Completed(last) =>
                    stage = IF Len(invoked) = 6 THEN "done"
                            ELSE <<"clean", "plan", "extract", "filter",
                                   "postprocess">>[Len(invoked)]
    /\ Terminal => ~ENABLED NextPipeline
    /\ "download_button" \in Widgets =>
          /\ Len(invoked) = 6
          /\ Completed(invoked[6])
          /\ stage = "done"

\* the extraction returned two rows, the filter none: the run has stopped
\* with the warning, the normalizer was never invoked, no download is offered
C19_Witness ==
    /\ stage = "stopped"
    /\ Len(invoked) = 5
    /\ invoked[4].size = 2
    /\ invoked[5] = Invocation("filter_rows", "returned", 0)
    /\ shown[Len(shown)] = Shown("warning", AllRowsFilteredOut)
    /\ "download_button" \notin Widgets

\* ---------------------------------------------------------------------
\* scraper.py: scrape_html
\* ---------------------------------------------------------------------

MaxRetries == 2     \* largest `retries` argument (the app passes 2)

\* if not html or len(html) < 1000
MinHtmlLen == 1000

wait_strategies == <<"domcontentloaded", "load", "networkidle">>

\* the exception an attempt ended with
AttemptError(attempt, what) == [attempt |-> attempt, what |-> what]

\* what the function is seen doing: launching the browser for an attempt,
\* one page.goto, catching an attempt's exception, one time.sleep (in tenths
\* of a second)
Launched(attempt) == [op |-> "launch", attempt |-> attempt]
Went(attempt, wait_until, ok) ==
    [op |-> "goto", attempt |-> attempt, wait_until |-> wait_until, ok |-> ok]
Caught(attempt, e) == [op |-> "except", attempt |-> attempt, e |-> e]
Slept(attempt, tenths) == [op |-> "sleep", attempt |-> attempt,
    tenths |-> tenths]

ScrapeResult(url, html_len, attempt) ==
    [kind |-> "ScrapeResult", url |-> url, html_len |-> html_len,
     attempt |-> attempt]

\* f"Failed to scrape after {retries + 1} attempt(s). Last error: {last_err}"
FailedToScrape(attempts, last_err) ==
    Raised("RuntimeError",
           [text |-> "Failed to scrape after", attempts |-> attempts,
            last_err |-> last_err])

\* mutant: the function sleeps after every failed attempt
backs_off_after_every_attempt(attempt, retries) == TRUE

\* if attempt < retries: time.sleep(...)
backs_off(attempt, retries) == attempt < retries

\* 0.8 * (attempt + 1) seconds, in tenths
backoff(attempt) == 8 * (attempt + 1)

InitScrape ==
    /\ surl \in {<<>>, <<" ">>, <<" ", "u">>}
    /\ sretries \in -1..MaxRetries
    /\ spc = "idle"
    /\ sattempt = 0
    /\ sstrategy = 0
    /\ slast = NoResult
    /\ slog = <<>>
    /\ sout = NoResult
    /\ CoreIdle /\ CompilerIdle /\ ApplierIdle /\ NormalizerIdle /\ PipelineIdle

scrRest == <<coreVars, cmpVars, aplVars, nrmVars, pipVars>>

\* for attempt in range(retries + 1): the next round of the loop, or the
\* raise after it
LoopFrom(attempt, last_err) ==
    IF attempt <= sretries
    THEN /\ sattempt' = attempt
         /\ spc' = "launch"
         /\ sout' = sout
    ELSE /\ sattempt' = sattempt
         /\ spc' = "done"
         /\ sout' = FailedToScrape(sretries + 1, last_err)

\* except (...) as e: last_err = e; the sleep; continue
Except(log, e) ==
    /\ slast' = e
    /\ slog' = log \o <<Caught(sattempt, e)>>
                   \o (IF backs_off(sattempt, sretries)
                       THEN <<Slept(sattempt, backoff(sattempt))>>
                       ELSE <<>>)
    /\ LoopFrom(sattempt + 1, e)

\* the call: the url check, then the loop is entered
Enter ==
    /\ spc = "idle"
    /\ IF Strip(surl) = <<>>
       THEN /\ sout' = Raised("ValueError", "URL is empty.")
            /\ spc' = "done"
            /\ UNCHANGED sattempt
       ELSE LoopFrom(0, slast)
    /\ UNCHANGED <<surl, sretries, sstrategy, slast, slog, scrRest>>

\* sync_playwright, chromium.launch, new_context, new_page
Launch ==
    /\ spc = "launch"
    /\ \E ok \in BOOLEAN :
          IF ok
          THEN /\ slog' = Append(slog, Launched(sattempt))
               /\ spc' = "goto"
               /\ sstrategy' = 1
               /\ UNCHANGED <<sattempt, slast, sout>>
          ELSE /\ Except(Append(slog, Launched(sattempt)),
                         AttemptError(sattempt, "launch"))
               /\ UNCHANGED sstrategy
    /\ UNCHANGED <<surl, sretries, scrRest>>

\* one round of `for wait_until in wait_strategies`, and after the last
\* round `if nav_err is not None: raise nav_err`
Goto ==
    /\ spc = "goto"
    /\ \E ok \in BOOLEAN :
          LET log == Append(slog,
                            Went(sattempt, wait_strategies[sstrategy], ok))
          IN  IF ok
              THEN /\ slog' = log
                   /\ spc' = "content"
                   /\ UNCHANGED <<sattempt, sstrategy, slast, sout>>
              ELSE IF sstrategy < Len(wait_strategies)
              THEN /\ slog' = log
                   /\ sstrategy' = sstrategy + 1
                   /\ UNCHANGED <<spc, sattempt, slast, sout>>
              ELSE /\ Except(log, AttemptError(sattempt,
                                               wait_strategies[sstrategy]))
                   /\ UNCHANGED sstrategy
    /\ UNCHANGED <<surl, sretries, scrRest>>

\* the waits, page.content(), the closes, the length test and the return
Content ==
    /\ spc = "content"
    /\ \E raised \in BOOLEAN, html_len \in {0, MinHtmlLen - 1, MinHtmlLen} :
          /\ raised => html_len = 0
          /\ IF raised
             THEN Except(slog, AttemptError(sattempt, "page.content"))
             ELSE IF html_len < MinHtmlLen
             THEN Except(slog, AttemptError(sattempt,
                                       "Fetched HTML is unexpectedly short."))
             ELSE /\ sout' = ScrapeResult(Strip(surl), html_len, sattempt)
                  /\ spc' = "done"
                  /\ UNCHANGED <<sattempt, slast, slog>>
    /\ UNCHANGED <<surl, sretries, sstrategy, scrRest>>

NextScrape ==
    \/ Enter
    \/ Launch
    \/ Goto
    \/ Content

SpecScrape == InitScrape /\ [][NextScrape]_vars

\* ---------------------------------------------------------------------
\* Claims about scrape_html
\* ---------------------------------------------------------------------

\* positions of the log where an attempt starts, fails, or is slept after
LogAt(op) == {k \in DOMAIN slog : slog[k].op = op}

AttemptsMade == Cardinality(LogAt("launch"))

\* the goto rounds of one attempt, in the order they were made
GotosOf(attempt) ==
    SelectSeq(slog, LAMBDA x : x.op = "goto" /\ x.attempt = attempt)

\* the attempts are numbered 0, 1, 2, ... and follow one another
OneAfterAnother ==
    \A k, l \in LogAt("launch") :
        /\ k < l => slog[k].attempt < slog[l].attempt
        /\ slog[k].attempt = Cardinality({m \in LogAt("launch") : m < k})

\* within an attempt the strategies are tried in their order, the next one
\* only after the one before failed
StrategiesInOrder ==
    \A a \in 0..MaxRetries + 1 :
        LET gotos == GotosOf(a)
        IN  /\ Len(gotos) <= Len(wait_strategies)
            /\ \A g \in DOMAIN gotos :
                  /\ gotos[g].wait_until = wait_strategies[g]
                  /\ g < Len(gotos) => ~gotos[g].ok

\* a sleep stands exactly between a failed attempt and the next one, and
\* lasts the longer the later the attempt
BacksOffBetweenAttempts ==
    /\ \A k \in LogAt("sleep") :
          /\ slog[k - 1].op = "except"
          /\ slog[k - 1].attempt = slog[k].attempt
          /\ slog[k].attempt < sretries
          /\ slog[k].tenths = 8 * (slog[k].attempt + 1)
          /\ IF k < Len(slog)
             THEN slog[k + 1] = Launched(slog[k].attempt + 1)
             ELSE spc = "launch" /\ sattempt = slog[k].attempt + 1
    /\ \A k \in LogAt("launch") :
          slog[k].attempt > 0
             => slog[k - 1] = Slept(slog[k].attempt - 1, 8 * slog[k].attempt)
    /\ \A k, l \in LogAt("sleep") : k < l => slog[k].tenths < slog[l].tenths

\* C20: with retries = r >= 0 scrape_html makes at most r+1 attempts, one
\* after another; it returns the result of the first attempt whose navigation
\* succeeded under one of the wait strategies (tried in the order
\* domcontentloaded, load, networkidle) and whose HTML has at least 1000
\* characters, and attempts nothing after that; after a failed attempt it
\* sleeps, the longer the later the attempt, before the next attempt but not
\* after the last; it raises the final error, carrying the last attempt's
\* error, only after all r+1 attempts failed; an empty URL fails at once
\* with no attempt made.
C20_AttemptsRetriesAndBackoff ==
    /\ Strip(surl) = <<>> =>
          /\ slog = <<>>
          /\ spc = "done" => sout = Raised("ValueError", "URL is empty.")
    /\ sretries >= 0 =>
          /\ AttemptsMade <= sretries + 1
          /\ OneAfterAnother
          /\ StrategiesInOrder
          /\ BacksOffBetweenAttempts
          /\ Cardinality(LogAt("except")) <= AttemptsMade
          /\ (spc = "done" /\ Strip(surl) # <<>>) =>
                \/ /\ sout.kind = "ScrapeResult"
                   /\ sout.html_len >= MinHtmlLen
                   /\ sout.attempt = AttemptsMade - 1
                   /\ Cardinality(LogAt("except")) = AttemptsMade - 1
                   /\ \A k \in LogAt("except") : slog[k].attempt < sout.attempt
                   /\ slog[Len(slog)].op = "goto"
                   /\ slog[Len(slog)].ok
                   /\ slog[Len(slog)].attempt = sout.attempt
                \/ /\ AttemptsMade = sretries + 1
                   /\ Cardinality(LogAt("except")) = sretries + 1
                   /\ slog[Len(slog)].op = "except"
                   /\ slog[Len(slog)].attempt = sretries
                   /\ sout = FailedToScrape(sretries + 1, slog[Len(slog)].e)
          /\ spc = "done" => ~ENABLED NextScrape

\* two attempts failed, each slept after (0.8 s, then 1.6 s); the third went
\* through on the second wait strategy and its result was returned
C20_Witness ==
    /\ sretries = 2
    /\ spc = "done"
    /\ sout.kind = "ScrapeResult"
    /\ sout.attempt = 2
    /\ AttemptsMade = 3
    /\ Len(GotosOf(2)) = 2
    /\ {slog[k].tenths : k \in LogAt("sleep")} = {8, 16}

=============================================================================
